---------------------------- MODULE Spec2Model ----------------------------
(***************************************************************************)
(* A model of the simulation core of fuel-drift: the seeded generator,     *)
(* the cave generator with its pickup manager, the tractor beam with the   *)
(* attraction of pickups, and the fuel tank.                               *)
(*                                                                         *)
(* Numbers.  The program computes in f32.  Every f32 value of the model    *)
(* is held as an integer count of a power-of-two unit, and every f32       *)
(* operation is the exact operation followed by rounding to 24             *)
(* significant bits, ties to even:                                         *)
(*   - x coordinates (x_start, next_x, pickup x): whole pixels; the x of   *)
(*     a pickup has a fraction counted in 2^-18 pixel: its position is     *)
(*     <<whole x, y, fraction of x>>;                                      *)
(*   - heights (ceiling, floor, pickup y, spawn distance): 2^-18 pixel;    *)
(*   - a perturbation inside generate_next: 2^-22 pixel;                   *)
(*   - beam time: 2^-25 second;                                            *)
(*   - fuel amounts: 2^-24 unit of fuel;                                   *)
(*   - a dt of burn or of an attraction update, a force component: the     *)
(*     record [m, e] of the value m * 2^-e.                                *)
(* A u32 is the pair <<high 16 bits, low 16 bits>>.                        *)
(***************************************************************************)
EXTENDS Integers, Sequences, FiniteSets

VARIABLES cave,      \* the Cave under test (core/src/cave.rs)
          twin,      \* a second Cave built from the same seed
          beam,      \* the TractorBeam (core/src/tractor.rs)
          op,        \* the last operation called, with its arguments and result
          hist,      \* every segment generated since construction or level change
          steps,     \* number of operations called so far
          fuel,      \* the Fuel tank (core/src/fuel.rs)
          life,      \* the ticks of the beam's current activation
          trail,     \* the attraction of each pickup over the latest updates
          burns,     \* the calls made on the Fuel tank, in order
          state_machine,  \* the StateMachine (core/src/game_state.rs)
          level_manager,  \* the LevelManager (core/src/level.rs)
          simple_rng,     \* a SimpleRng of its own (core/src/cave.rs)
          player,         \* the Player (core/src/player.rs)
          scan            \* two PickupManagers scanned side by side

vars == <<cave, twin, beam, op, hist, steps, fuel, life, trail, burns,
          state_machine, level_manager, simple_rng, player, scan>>

---------------------------------------------------------------------------
(* Bounds of the exploration *)

MaxSteps == 3        \* cave operations per behaviour
MaxBeamSteps == 6    \* beam operations per behaviour
MaxLevel == 7        \* level numbers passed to configure_for_level: 1..MaxLevel
MaxFuelSteps == 4    \* fuel operations per behaviour
MaxAttractSteps == 5 \* beam, attraction and collection operations per behaviour

\* Inputs
Seeds == {<<0, 42>>, <<0, 12345>>}                  \* Cave::new(seed)
SpawnDistances == {300, 800}                        \* fuel_spawn_distance
Views == {<<100, 200>>, <<0, 5100>>, <<2600, 5300>>}  \* <<x_min, x_max>>
Levels == 1..MaxLevel
Dirs == {"Up", "Down"}

---------------------------------------------------------------------------
(* Program constants *)

MIN_GAP == 150
SEGMENT_WIDTH == 50
MAX_HEIGHT_CHANGE == 5
INITIAL_CEILING == 50
INITIAL_FLOOR == 450
MAX_SEGMENTS == 100
CENTER_Y == 300
INITIAL_GAP == INITIAL_FLOOR - INITIAL_CEILING
LEVEL_STEP == 50
LEVEL_CAP == 5

SIZE == 20
WALL_OFFSET == 5
RNG_SEED_OFFSET == 42
INITIAL_SPAWN_DELAY == 800
\* SPAWN_DISTANCE_VARIATION: 0.3 as an f32 is 10066330 * 2^-25
VARIATION_MANT == 10066330
VARIATION_EXP == 25

\* MAX_DURATION = 2.0 s
MAX_DURATION_S == 2
MAX_RANGE == 300
BEAM_WIDTH == 32
ATTRACTION_HOLD_WIDTH == 48
ATTRACTION_SPEED == 200
CLEANUP_DISTANCE == 1000
PLAYER_WIDTH == 30
PLAYER_HEIGHT == 18

---------------------------------------------------------------------------
(* f32 arithmetic on scaled integers *)

Min(a, b) == IF a < b THEN a ELSE b
Max(a, b) == IF a > b THEN a ELSE b

\* 2^0 .. 2^30
Powers == <<1, 2, 4, 8, 16, 32, 64, 128, 256, 512, 1024, 2048, 4096, 8192,
            16384, 32768, 65536, 131072, 262144, 524288, 1048576, 2097152,
            4194304, 8388608, 16777216, 33554432, 67108864, 134217728,
            268435456, 536870912, 1073741824>>

\* 2^k for k <= 30, and 1 for k < 0
Pow2(k) == IF k <= 0 THEN 1 ELSE Powers[k + 1]

\* the number of bits of n: the least b with n < 2^b
BitLen(n) ==
    IF n <= 0 THEN 0
    ELSE IF n >= Powers[31] THEN 31
    ELSE CHOOSE b \in 1..30 : Powers[b] <= n /\ n < Powers[b + 1]

H == Pow2(18)        \* height units per pixel
V == Pow2(22)        \* perturbation units per pixel
T24 == Pow2(24)

\* n >= 0 rounded to the nearest multiple of g, ties to the even multiple.
RoundHalfEven(n, g) ==
    IF 2 * (n % g) < g THEN (n \div g) * g
    ELSE IF 2 * (n % g) > g THEN (n \div g + 1) * g
    ELSE IF (n \div g) % 2 = 0 THEN (n \div g) * g ELSE (n \div g + 1) * g

\* the quotient q of a division by g with remainder r, rounded to nearest, ties
\* to even
RoundUp(q, r, g) ==
    IF 2 * r > g \/ (2 * r = g /\ q % 2 = 1) THEN q + 1 ELSE q

\* The f32 nearest to the integer n (any power-of-two unit), 0 <= n < 2^31.
F32Round(n) ==
    IF n < T24 THEN n ELSE RoundHalfEven(n, Pow2(BitLen(n) - 24))

F32RoundS(n) == IF n < 0 THEN -F32Round(-n) ELSE F32Round(n)

\* n + fnum/fden rounded to the nearest multiple of g, ties to even
RoundStickyTo(n, fnum, fden, g) ==
    IF IF g = 1
       THEN 2 * fnum > fden \/ (2 * fnum = fden /\ n % 2 = 1)
       ELSE 2 * (n % g) > g \/ (2 * (n % g) = g /\ (fnum > 0 \/ (n \div g) % 2 = 1))
    THEN (n \div g + 1) * g
    ELSE (n \div g) * g

\* The f32 nearest to n + fnum/fden, where 0 <= fnum < fden and n >= 2^23
\* (so that the result is a whole number of units).
RoundSticky(n, fnum, fden) ==
    RoundStickyTo(n, fnum, fden, IF n < T24 THEN 1 ELSE Pow2(BitLen(n) - 24))

\* A positive f32 as mantissa and exponent: the value is m * 2^-e.
Norm(n, e) ==
    IF n < T24 THEN [m |-> n, e |-> e]
    ELSE [m |-> n \div Pow2(BitLen(n) - 24), e |-> e - (BitLen(n) - 24)]

\* the 48-bit product hi * 2^24 + lo, hi of s bits, rounded to 24 bits
MulRound(hi, lo, e, s) ==
    IF hi = 0 THEN [m |-> lo, e |-> e]
    ELSE [m |-> RoundUp(hi * Pow2(24 - s) + lo \div Pow2(s), lo % Pow2(s), Pow2(s)),
          e |-> e - s]

MulWide(h, l0, e) == MulRound(h + l0 \div T24, l0 % T24, e, BitLen(h + l0 \div T24))

MulLimbs(a1, a0, b1, b0, e) ==
    MulWide(a1 * b1 + (a1 * b0 + a0 * b1) \div 4096,
            ((a1 * b0 + a0 * b1) % 4096) * 4096 + a0 * b0, e)

\* f32 product of two non-negative values a, b (mantissas at most 2^24),
\* by 12-bit limbs so that no intermediate exceeds 31 bits.
F32Mul(a, b) ==
    MulLimbs(a.m \div 4096, a.m % 4096, b.m \div 4096, b.m % 4096, a.e + b.e)

\* n + fnum/d rounded to f32, 0 <= fnum < d
AddFrac(n, fnum, d) ==
    IF fnum = 0 THEN F32RoundS(n)
    ELSE IF n >= 0 THEN RoundSticky(n, fnum, d)
    ELSE -RoundSticky(-n - 1, d - fnum, d)

\* f32 sum of lo (a signed count of units 2^-S) and the non-negative value t,
\* as a count of units 2^-S; a t below 2^-6 unit is a fraction below a half.
F32AddFix(lo, t, S) ==
    IF t.m = 0 THEN F32RoundS(lo)
    ELSE IF t.e <= S THEN F32RoundS(lo + t.m * Pow2(S - t.e))
    ELSE IF t.e - S > 30 THEN AddFrac(lo, 1, 4)
    ELSE AddFrac(lo + t.m \div Pow2(t.e - S), t.m % Pow2(t.e - S), Pow2(t.e - S))

\* The record m * 2^-e with its mantissa brought into 2^23 .. 2^24 - 1 (m > 0
\* given with at most 24 bits).
Normal(r) ==
    IF r.m = 0 \/ r.m >= Pow2(23) THEN r
    ELSE [m |-> r.m * Pow2(24 - BitLen(r.m)), e |-> r.e + (24 - BitLen(r.m))]

\* n * 2^-e with sticky bit (something was cut off below n) rounded to 24 bits
RoundRec(n, sticky, e) ==
    IF n < T24 THEN [m |-> n, e |-> e]
    ELSE [m |-> RoundStickyTo(n, IF sticky THEN 1 ELSE 0, 2, Pow2(BitLen(n) - 24))
                    \div Pow2(BitLen(n) - 24),
          e |-> e - (BitLen(n) - 24)]

\* f32 sum of two normal records, a the one of the smaller exponent: both are
\* counted in a quarter of a's unit, b with what it loses as the sticky bit
AddAligned(a, b, sh) ==
    IF sh > 26 THEN RoundRec(4 * a.m, TRUE, a.e + 2)
    ELSE RoundRec(4 * a.m + (4 * b.m) \div Pow2(sh),
                  (4 * b.m) % Pow2(sh) # 0, a.e + 2)

AddNormal(a, b) ==
    IF a.e <= b.e THEN AddAligned(a, b, b.e - a.e) ELSE AddAligned(b, a, a.e - b.e)

\* f32 sum of two non-negative values
F32Add(a, b) ==
    IF a.m = 0 THEN b ELSE IF b.m = 0 THEN a ELSE AddNormal(Normal(a), Normal(b))

\* The square root of m * 4^13, bit by bit: i counts the pairs of bits still
\* to take, the upper 13 pairs are those of m (below 2^26), the lower 13 are
\* zero; rem and root are the remainder and the root so far.
SqrtPair(m, i) == IF i > 13 THEN (m \div Pow2(2 * (i - 14))) % 4 ELSE 0

RECURSIVE SqrtBits(_, _, _, _)
SqrtBits(rem, root, m, i) ==
    IF i = 0 THEN [root |-> root, rem |-> rem]
    ELSE IF 4 * rem + SqrtPair(m, i) >= 4 * root + 1
    THEN SqrtBits(4 * rem + SqrtPair(m, i) - (4 * root + 1), 2 * root + 1, m, i - 1)
    ELSE SqrtBits(4 * rem + SqrtPair(m, i), 2 * root, m, i - 1)

SqrtRound(s, e) == RoundRec(s.root, s.rem # 0, e)

\* sqrt of the normal record m * 2^-e with e even
SqrtEven(m, e) == SqrtRound(SqrtBits(0, 0, m, 26), e \div 2 + 13)

SqrtNormal(r) ==
    IF r.e % 2 = 0 THEN SqrtEven(r.m, r.e) ELSE SqrtEven(2 * r.m, r.e + 1)

\* f32 square root of a non-negative value
F32Sqrt(r) == IF r.m = 0 THEN r ELSE SqrtNormal(Normal(r))

\* The quotient of two mantissas in 2^23 .. 2^24 - 1, bit by bit, i bits to go
RECURSIVE DivBits(_, _, _, _)
DivBits(rem, q, d, i) ==
    IF i = 0 THEN [q |-> q, rem |-> rem]
    ELSE IF rem >= d THEN DivBits(2 * (rem - d), 2 * q + 1, d, i - 1)
    ELSE DivBits(2 * rem, 2 * q, d, i - 1)

DivRound(s, e) == RoundRec(s.q, s.rem # 0, e)

DivNormal(a, b) == DivRound(DivBits(a.m, 0, b.m, 26), 25 + a.e - b.e)

\* f32 quotient of two non-negative values, b above 0
F32Div(a, b) == IF a.m = 0 THEN a ELSE DivNormal(Normal(a), Normal(b))

---------------------------------------------------------------------------
(* SimpleRng (core/src/cave.rs) *)

U32(n) == <<n \div 65536, n % 65536>>

\* SimpleRng::new: the stream is its seed
SimpleRngNew(seed) == seed

\* wrapping_add of a small constant
U32Add(s, k) ==
    <<(s[1] + (s[2] + k) \div 65536) % 65536, (s[2] + k) % 65536>>

\* seed * 1103515245 + 12345 mod 2^32; 1103515245 = 16838 * 2^16 + 20077
RngStep(s) ==
    <<(((s[1] * 20077) % 65536) + ((s[2] * 16838) % 65536)
          + ((s[2] * 20077 + 12345) \div 65536)) % 65536,
      (s[2] * 20077 + 12345) % 65536>>

\* (seed as f32) / (u32::MAX as f32): the seed rounded to 24 bits, over 2^32
SeedShift(s, sh) ==
    [m |-> RoundUp(s[1] * (65536 \div Pow2(sh)) + s[2] \div Pow2(sh),
                   s[2] % Pow2(sh), Pow2(sh)),
     e |-> 32 - sh]

SeedUnit(s) ==
    IF s[1] < 256 THEN [m |-> s[1] * 65536 + s[2], e |-> 32]
    ELSE SeedShift(s, BitLen(s[1]) - 8)

\* next_f32: the new state and the value drawn
Drawn(n) == [rng |-> n, val |-> SeedUnit(n)]

next_f32(s) == Drawn(RngStep(s))

\* range(min, max) = min + next_f32() * (max - min), min and max - min given
\* in units 2^-S; the result in units 2^-S
Scaled(d, lo, diff, S) ==
    [rng |-> d.rng, val |-> F32AddFix(lo, F32Mul(d.val, Norm(diff, S)), S)]

range(s, lo, diff, S) == Scaled(next_f32(s), lo, diff, S)

\* next_f32() < 0.5
BelowHalf(u) == IF u.e >= 32 THEN TRUE ELSE u.m < Pow2(u.e - 1)

---------------------------------------------------------------------------
(* PickupManager (core/src/pickup.rs): spawning *)

\* Pickup::new
PickupNew(position, is_on_ceiling) ==
    [position |-> position, original_position |-> position,
     pickup_type |-> "Fuel", is_on_ceiling |-> is_on_ceiling,
     collected |-> FALSE, being_attracted |-> FALSE]

\* PickupManager::new
PickupManagerNew(seed) ==
    [pickups |-> << >>,
     rng |-> U32Add(seed, RNG_SEED_OFFSET),
     last_pickup_x |-> -INITIAL_SPAWN_DELAY,
     next_pickup_distance |-> 0]

\* whether whole + frac / H rounds to an f32 above whole, the f32 being
\* multiples of g / H there
RoundsAbove(whole, frac, g) ==
    \/ frac \div g > 0
    \/ 2 * (frac % g) > g
    \/ 2 * (frac % g) = g /\ (IF g = H THEN whole % 2 ELSE (frac \div g) % 2) = 1

\* x >= last_pickup_x + next_pickup_distance, the sum rounded to f32.
\* x and last are whole pixels, npd counts 2^-18 pixel; whole and frac / H are
\* the whole pixels and the fraction of the exact sum.
SpawnDueAt(x, last, npd, whole, frac) ==
    IF whole < 6000
    THEN x >= 8000 \/ x * H >= F32RoundS(last * H + npd)
    ELSE IF whole >= T24
    THEN x >= RoundSticky(whole, frac, H)
    ELSE x >= whole + (IF RoundsAbove(whole, frac, Pow2(BitLen(whole) - 6))
                       THEN 1 ELSE 0)

SpawnDue(x, last, npd) == SpawnDueAt(x, last, npd, last + npd \div H, npd % H)

\* the value t in units 2^-18
Fix18(t) ==
    IF t.e <= 18 THEN t.m * Pow2(18 - t.e) ELSE t.m \div Pow2(t.e - 18)

SpawnBetween(rng, lo, hi) == range(rng, lo, F32RoundS(hi - lo), 18)

SpawnAround(rng, average, variation) ==
    SpawnBetween(rng, F32RoundS(average - variation), F32RoundS(average + variation))

\* (mutant) the default spawn distance 300 in place of the level's
SpawnDistanceDefault(rng, avg) ==
    SpawnAround(rng, 300 * H,
                Fix18(F32Mul([m |-> 300, e |-> 0],
                             [m |-> VARIATION_MANT, e |-> VARIATION_EXP])))

\* the new next_pickup_distance and generator state drawn by should_spawn_pickup
SpawnDistance(rng, avg) ==
    SpawnAround(rng, avg * H,
                Fix18(F32Mul([m |-> avg, e |-> 0],
                             [m |-> VARIATION_MANT, e |-> VARIATION_EXP])))

\* (mutant) the spawn cursor stays where it was
SpawnNowStale(pm, x, d) ==
    [pm |-> [pm EXCEPT !.rng = d.rng, !.next_pickup_distance = d.val],
     result |-> TRUE]

\* should_spawn_pickup when a pickup is due, d being the distance drawn
SpawnNow(pm, x, d) ==
    [pm |-> [pm EXCEPT !.rng = d.rng,
                       !.next_pickup_distance = d.val,
                       !.last_pickup_x = x],
     result |-> TRUE]

should_spawn_pickup(pm, x, average_distance) ==
    IF SpawnDue(x, pm.last_pickup_x, pm.next_pickup_distance)
    THEN SpawnNow(pm, x, SpawnDistance(pm.rng, average_distance))
    ELSE [pm |-> pm, result |-> FALSE]

\* (mutant) the size of the pickup is left out at the floor
SpawnOnWallNoSize(pm, rng, x, ceiling_y, floor_y, is_on_ceiling) ==
    [pm EXCEPT
        !.rng = rng,
        !.pickups =
            Append(@, PickupNew(
                <<x,
                  IF is_on_ceiling
                  THEN F32Round(ceiling_y + WALL_OFFSET * H)
                  ELSE F32Round(floor_y - WALL_OFFSET * H),
                  0>>,
                is_on_ceiling))]

\* spawn_fuel_pickup once the wall is chosen
SpawnOnWall(pm, rng, x, ceiling_y, floor_y, is_on_ceiling) ==
    [pm EXCEPT
        !.rng = rng,
        !.pickups =
            Append(@, PickupNew(
                <<x,
                  IF is_on_ceiling
                  THEN F32Round(ceiling_y + WALL_OFFSET * H)
                  ELSE F32Round(F32Round(floor_y - SIZE * H) - WALL_OFFSET * H),
                  0>>,
                is_on_ceiling))]

spawn_fuel_pickup(pm, x, ceiling_y, floor_y) ==
    SpawnOnWall(pm, RngStep(pm.rng), x, ceiling_y, floor_y,
                BelowHalf(next_f32(pm.rng).val))

\* (mutant) the spawn cursor is reset and the pickups are kept
ClearCursorOnly(pm) ==
    [pm EXCEPT !.last_pickup_x = 0,
               !.next_pickup_distance = INITIAL_SPAWN_DELAY * H]

\* (mutant) the pickups are cleared and the spawn cursor is kept
ClearPickupsOnly(pm) == [pm EXCEPT !.pickups = << >>]

\* (mutant) the spawn cursor is reset to that of PickupManager::new
ClearAsNew(pm) ==
    [pm EXCEPT !.pickups = << >>,
               !.last_pickup_x = -INITIAL_SPAWN_DELAY,
               !.next_pickup_distance = 0]

clear_all_pickups(pm) ==
    [pm EXCEPT !.pickups = << >>,
               !.last_pickup_x = 0,
               !.next_pickup_distance = INITIAL_SPAWN_DELAY * H]

---------------------------------------------------------------------------
(* Cave (core/src/cave.rs) *)

CaveSegment(ceiling, floor, x_start, width) ==
    [ceiling |-> ceiling, floor |-> floor, x_start |-> x_start, width |-> width]

x_end(seg) == F32Round(seg.x_start + seg.width)

PushSegment(c, segment) ==
    [c EXCEPT !.segments = Append(@, segment), !.next_x = x_end(segment)]

generate_initial_segment(c) ==
    PushSegment(c, CaveSegment(c.base_ceiling, c.base_floor, 0, SEGMENT_WIDTH))

CaveNew(seed) ==
    generate_initial_segment(
        [segments |-> << >>,
         rng |-> seed,
         next_x |-> 0,
         pickup_manager |-> PickupManagerNew(seed),
         base_ceiling |-> INITIAL_CEILING * H,
         base_floor |-> INITIAL_FLOOR * H])

\* (mutant) the reduction counted from level 0
LevelGapOffByOne(level_number) ==
    Max(INITIAL_GAP - Min(level_number, LEVEL_CAP) * LEVEL_STEP, MIN_GAP)

\* the gap of level level_number >= 1, in pixels
LevelGap(level_number) ==
    Max(INITIAL_GAP - Min(level_number - 1, LEVEL_CAP) * LEVEL_STEP, MIN_GAP)

\* configure_for_level once the gap (2^-18 pixel) is computed
ConfigureGap(c, gap) ==
    generate_initial_segment(
        [c EXCEPT !.base_ceiling = CENTER_Y * H - gap \div 2,
                  !.base_floor = CENTER_Y * H + gap \div 2,
                  !.segments = << >>,
                  !.pickup_manager = clear_all_pickups(@),
                  !.next_x = 0])

configure_for_level(c, level_number) == ConfigureGap(c, LevelGap(level_number) * H)

\* level_number - 1 is a subtraction on u32: below level 1 a build with
\* overflow checks (the default of a debug build) panics there, and a build
\* without them (the default of a release build) wraps to u32::MAX
Builds == {"checked", "wrapping"}

\* level_number - 1 wrapped, as a u32
WrappingSub1(level_number) ==
    IF level_number = 0 THEN <<65535, 65535>> ELSE U32(level_number - 1)

\* (level_number - 1).min(5)
MinU32(u, cap) == IF u[1] > 0 \/ u[2] > cap THEN cap ELSE u[2]

\* the gap of any level in a build that wraps
LevelGapWrapped(level_number) ==
    Max(INITIAL_GAP - MinU32(WrappingSub1(level_number), LEVEL_CAP) * LEVEL_STEP,
        MIN_GAP)

\* configure_for_level in a build: the cave afterwards, and done = FALSE when
\* the call panicked (before it changed anything)
configure_in_build(c, level_number, build) ==
    IF level_number < 1 /\ build = "checked"
    THEN [cave |-> c, done |-> FALSE]
    ELSE [cave |-> ConfigureGap(c, LevelGapWrapped(level_number) * H),
          done |-> TRUE]

\* the pair with a gap of MIN_GAP around gap_center
Around(gap_center) ==
    [ceiling |-> F32Round(gap_center - (MIN_GAP * H) \div 2),
     floor |-> F32Round(gap_center + (MIN_GAP * H) \div 2)]

\* a candidate pair recentred on its midpoint with a gap of MIN_GAP
Recentre(ceiling, floor) == Around(F32Round(ceiling + floor) \div 2)

\* base heights plus the two perturbations (2^-22 pixel): the candidate pair
SegmentCandidate(c, ceiling_variation, floor_variation) ==
    [ceiling |-> F32Round(c.base_ceiling * 16 + ceiling_variation) \div 16,
     floor |-> F32Round(c.base_floor * 16 + floor_variation) \div 16]

\* (mutant) the minimum-gap check left out
SegmentHeightsUnchecked(candidate) == candidate

\* the ceiling and floor of the next segment: the candidate, recentred when its
\* gap is below MIN_GAP
SegmentHeights(candidate) ==
    IF F32RoundS(candidate.floor - candidate.ceiling) < MIN_GAP * H
    THEN Recentre(candidate.ceiling, candidate.floor)
    ELSE candidate

\* (mutant) a draw from a range twice as wide
VariationWide(rng) ==
    range(rng, -2 * MAX_HEIGHT_CHANGE * V, 4 * MAX_HEIGHT_CHANGE * V, 22)

\* a draw of range(-MAX_HEIGHT_CHANGE, MAX_HEIGHT_CHANGE)
Variation(rng) == range(rng, -MAX_HEIGHT_CHANGE * V, 2 * MAX_HEIGHT_CHANGE * V, 22)

SegmentAt(h, x_start) == CaveSegment(h.ceiling, h.floor, x_start, SEGMENT_WIDTH)

SegmentFrom(c, rng, candidate) ==
    [rng |-> rng,
     candidate |-> candidate,
     segment |-> SegmentAt(SegmentHeights(candidate), c.next_x)]

WithVariations(c, ceiling_variation, floor_variation) ==
    SegmentFrom(c, floor_variation.rng,
                SegmentCandidate(c, ceiling_variation.val, floor_variation.val))

WithCeilingVariation(c, ceiling_variation) ==
    WithVariations(c, ceiling_variation, Variation(ceiling_variation.rng))

\* the segment generate_next builds, the candidate pair it came from, and the
\* generator state after its two draws
NextSegment(c) == WithCeilingVariation(c, Variation(c.rng))

SpawnIf(s, x, segment) ==
    IF s.result
    THEN spawn_fuel_pickup(s.pm, x, segment.ceiling, segment.floor)
    ELSE s.pm

SpawnAtMiddle(pm, segment, fuel_spawn_distance, x) ==
    SpawnIf(should_spawn_pickup(pm, x, fuel_spawn_distance), x, segment)

\* the pickup manager after generate_next's spawn check for a segment
SpawnInSegment(pm, segment, fuel_spawn_distance) ==
    SpawnAtMiddle(pm, segment, fuel_spawn_distance,
                  F32Round(segment.x_start + segment.width \div 2))

\* (mutant) nothing is ever evicted
EvictNever(segments) == segments

\* (mutant) pop_back in place of pop_front
EvictNewest(segments) ==
    IF Len(segments) > MAX_SEGMENTS THEN SubSeq(segments, 1, MAX_SEGMENTS) ELSE segments

\* while segments.len() > MAX_SEGMENTS { segments.pop_front() }
RECURSIVE Evict(_)
Evict(segments) ==
    IF Len(segments) > MAX_SEGMENTS THEN Evict(Tail(segments)) ELSE segments

\* (mutant) the cursor is not advanced
GenerateWithStaleCursor(c, n, fuel_spawn_distance) ==
    [c EXCEPT !.rng = n.rng,
              !.pickup_manager = SpawnInSegment(@, n.segment, fuel_spawn_distance),
              !.segments = Evict(Append(@, n.segment))]

\* generate_next once its segment n = NextSegment(c) is computed
GenerateWith(c, n, fuel_spawn_distance) ==
    [c EXCEPT !.rng = n.rng,
              !.pickup_manager = SpawnInSegment(@, n.segment, fuel_spawn_distance),
              !.segments = Evict(Append(@, n.segment)),
              !.next_x = x_end(n.segment)]

generate_next(c, fuel_spawn_distance) ==
    GenerateWith(c, NextSegment(c), fuel_spawn_distance)

ViewMade(st, n, c2) ==
    [cave |-> c2,
     hung |-> c2.next_x = st.cave.next_x,
     made |-> Append(st.made, n.segment)]

ViewTurn(st, n, fuel_spawn_distance) ==
    ViewMade(st, n, GenerateWith(st.cave, n, fuel_spawn_distance))

\* One turn of `while self.next_x < limit { self.generate_next(d) }` on the loop
\* state st: the cave, the segments generated so far (made), and whether the
\* loop can still end (hung).  A generate_next that leaves next_x where it was
\* leaves the loop condition as it was, so the loop never ends: hung.  A turn on
\* a finished loop changes nothing.
ViewStep(st, limit, fuel_spawn_distance) ==
    IF st.hung \/ ~(st.cave.next_x < limit) THEN st
    ELSE ViewTurn(st, NextSegment(st.cave), fuel_spawn_distance)

ViewStep4(st, limit, d) ==
    ViewStep(ViewStep(ViewStep(ViewStep(st, limit, d), limit, d), limit, d), limit, d)

ViewStep16(st, limit, d) ==
    ViewStep4(ViewStep4(ViewStep4(ViewStep4(st, limit, d), limit, d), limit, d), limit, d)

\* the loop, sixteen turns at a time
RECURSIVE ViewLoop(_, _, _)
ViewLoop(st, limit, fuel_spawn_distance) ==
    IF st.hung \/ ~(st.cave.next_x < limit) THEN st
    ELSE ViewLoop(ViewStep16(st, limit, fuel_spawn_distance), limit, fuel_spawn_distance)

\* the segments segments_in_view returns from the retained ones
InView(segments, x_min, x_max) ==
    SelectSeq(segments, LAMBDA segment: segment.x_start < x_max /\ x_end(segment) > x_min)

ViewResult(r, x_min, x_max) ==
    [cave |-> r.cave, done |-> ~r.hung, made |-> r.made,
     result |-> IF r.hung THEN << >> ELSE InView(r.cave.segments, x_min, x_max)]

\* segments_in_view: the cave afterwards, the segments returned (result), those
\* generated (made), and done = FALSE when the call never returns
segments_in_view(c, x_min, x_max, fuel_spawn_distance) ==
    ViewResult(ViewLoop([cave |-> c, hung |-> FALSE, made |-> << >>],
                        F32Round(x_max + SEGMENT_WIDTH), fuel_spawn_distance),
               x_min, x_max)

---------------------------------------------------------------------------
(* TractorBeam (core/src/tractor.rs): activation and timer *)

TICKS == Pow2(25)               \* beam time units per second
MAX_DURATION == MAX_DURATION_S * TICKS

\* 0.4 as an f32 is 13421773 * 2^-25 s
FOUR_TENTHS == 13421773

\* dt >= 0 of a tick: nothing, two and three units (two are lost to rounding
\* near MAX_DURATION), 0.4 s, half a second, a second and a half,
\* MAX_DURATION, and more
Dts == {0, 2, 3, FOUR_TENTHS, TICKS \div 2, TICKS + TICKS \div 2, MAX_DURATION,
        MAX_DURATION + 8}

TractorBeamNew == [active |-> FALSE, dir |-> "Up", timer |-> 0]

\* (mutant) activation without the check for an active beam
activateAlways(b, dir) == [active |-> TRUE, dir |-> dir, timer |-> MAX_DURATION]

activate(b, dir) ==
    IF ~b.active
    THEN [active |-> TRUE, dir |-> dir, timer |-> MAX_DURATION]
    ELSE b

\* (mutant) the timer is not clamped at expiry
tickUnclamped(b, dt) ==
    IF b.active
    THEN [b EXCEPT !.timer = F32RoundS(b.timer - dt),
                   !.active = F32RoundS(b.timer - dt) > 0]
    ELSE b

\* (mutant) a timer at exactly 0 does not switch the beam off
ExpireBelowZero(b) ==
    IF b.timer < 0 THEN [b EXCEPT !.active = FALSE, !.timer = 0] ELSE b

\* a beam whose timer has run out is switched off, its timer set to 0
Expire(b) == IF b.timer <= 0 THEN [b EXCEPT !.active = FALSE, !.timer = 0] ELSE b

tick(b, dt) ==
    IF b.active THEN Expire([b EXCEPT !.timer = F32RoundS(b.timer - dt)]) ELSE b

\* The ticks of an activation: their number and the least dt among them (none
\* yet: NoTick).  An activate that starts an activation starts the count, an
\* activate on an active beam leaves it, a tick on an active beam is counted.
NoTick == MAX_DURATION + MAX_DURATION

LifeNew == [ticks |-> 0, least |-> NoTick]

LifeActivate(b, l) == IF b.active THEN l ELSE LifeNew

LifeTick(b, l, dt) ==
    IF b.active THEN [ticks |-> l.ticks + 1, least |-> Min(l.least, dt)] ELSE l

---------------------------------------------------------------------------
(* TractorBeam (core/src/tractor.rs): the beam area and the attraction     *)
(* force.  A pickup position is <<whole x, y, fraction of x>>, a player    *)
(* position is <<x, y>> in whole pixels; differences count 2^-18 pixel.    *)

Abs(n) == IF n < 0 THEN -n ELSE n

Last(seq) == seq[Len(seq)]

\* the x of a pickup position in 2^-18 pixel
PosX(position) == position[1] * H + position[3]

\* a pickup position from its x and y in 2^-18 pixel
Position(x, y) == <<x \div H, y, x % H>>

\* target - player, each difference as f32 computes it
Delta(player_pos, target_pos) ==
    <<F32RoundS(PosX(target_pos) - player_pos[1] * H),
      F32RoundS(target_pos[2] - player_pos[2] * H)>>

\* the tests of is_point_in_beam_area on dx, dy
InArea(b, dx, dy, beam_width) ==
    /\ b.active
    /\ IF b.dir = "Up" THEN dy < 0 ELSE dy > 0
    /\ 2 * Abs(dx) <= beam_width * H
    /\ Abs(dy) <= MAX_RANGE * H

is_point_in_beam_area(b, player_pos, target_pos, beam_width) ==
    InArea(b, Delta(player_pos, target_pos)[1], Delta(player_pos, target_pos)[2],
           beam_width)

is_point_in_beam(b, player_pos, target_pos) ==
    is_point_in_beam_area(b, player_pos, target_pos, BEAM_WIDTH)

\* (mutant) attraction is maintained in the narrow beam only
maintainNarrow(b, player_pos, target_pos) ==
    is_point_in_beam_area(b, player_pos, target_pos, BEAM_WIDTH)

\* (mutant) attraction is maintained in half the beam only
maintainHalf(b, player_pos, target_pos) ==
    is_point_in_beam_area(b, player_pos, target_pos, BEAM_WIDTH \div 2)

should_maintain_attraction(b, player_pos, target_pos) ==
    is_point_in_beam_area(b, player_pos, target_pos, ATTRACTION_HOLD_WIDTH)

\* A force component: the sign s and the f32 magnitude m * 2^-e.
Signed(n, r) ==
    [s |-> IF n < 0 THEN -1 ELSE IF n > 0 THEN 1 ELSE 0, m |-> r.m, e |-> r.e]

ZeroForce == <<[s |-> 0, m |-> 0, e |-> 0], [s |-> 0, m |-> 0, e |-> 0]>>

\* (dx * dx + dy * dy).sqrt()
Distance(dx, dy) ==
    F32Sqrt(F32Add(F32Mul(Norm(Abs(dx), 18), Norm(Abs(dx), 18)),
                   F32Mul(Norm(Abs(dy), 18), Norm(Abs(dy), 18))))

\* (dx / distance, dy / distance), or nothing at distance 0
ForceAt(dx, dy, distance) ==
    IF distance.m > 0
    THEN <<Signed(dx, F32Div(Norm(Abs(dx), 18), distance)),
           Signed(dy, F32Div(Norm(Abs(dy), 18), distance))>>
    ELSE ZeroForce

\* the force on dx, dy = player - target
ForceOn(dx, dy) == ForceAt(dx, dy, Distance(dx, dy))

get_attraction_force(b, player_pos, target_pos) ==
    IF ~is_point_in_beam(b, player_pos, target_pos) THEN ZeroForce
    ELSE ForceOn(-Delta(player_pos, target_pos)[1], -Delta(player_pos, target_pos)[2])

---------------------------------------------------------------------------
(* Pickup and PickupManager (core/src/pickup.rs): attraction *)

\* Pickup::collect
collect(p) == [p EXCEPT !.collected = TRUE]

\* (mutant) the flag is cleared and the pickup stays where it is
resetFlagOnly(p) == [p EXCEPT !.being_attracted = FALSE]

\* Pickup::reset_to_wall
reset_to_wall(p) ==
    [p EXCEPT !.position = p.original_position, !.being_attracted = FALSE]

\* force * speed * dt, the magnitude of one component
Advance(f, speed, dt) == F32Mul(F32Mul(f, Norm(speed, 0)), dt)

\* coordinate += step, the step with the sign s; a step below 2^-24 of the
\* unit 2^-18 is absorbed by a coordinate of 32 pixels or more
Moved(coordinate, s, step) ==
    IF step.m = 0 \/ step.e > 48 THEN coordinate
    ELSE IF s > 0 THEN F32AddFix(coordinate, step, 18)
    ELSE -F32AddFix(-coordinate, step, 18)

\* (mutant) the pickup is moved and its flag is left as it was
attractUnflagged(p, force, speed, dt) ==
    IF ~p.collected
    THEN [p EXCEPT
            !.position =
                Position(Moved(PosX(p.position), force[1].s, Advance(force[1], speed, dt)),
                         Moved(p.position[2], force[2].s, Advance(force[2], speed, dt)))]
    ELSE p

\* Pickup::apply_attraction
apply_attraction(p, force, speed, dt) ==
    IF ~p.collected
    THEN [p EXCEPT
            !.position =
                Position(Moved(PosX(p.position), force[1].s, Advance(force[1], speed, dt)),
                         Moved(p.position[2], force[2].s, Advance(force[2], speed, dt))),
            !.being_attracted = TRUE]
    ELSE p

ApplyForce(p, force, dt) ==
    IF force[1].m # 0 \/ force[2].m # 0
    THEN apply_attraction(p, force, ATTRACTION_SPEED, dt)
    ELSE p

apply_attraction_force(p, b, player_pos, dt) ==
    ApplyForce(p, get_attraction_force(b, player_pos, p.position), dt)

handle_ongoing_attraction(p, b, player_pos, dt) ==
    IF should_maintain_attraction(b, player_pos, p.position)
    THEN apply_attraction_force(p, b, player_pos, dt)
    ELSE reset_to_wall(p)

handle_initial_attraction(p, b, player_pos, dt) ==
    IF is_point_in_beam(b, player_pos, p.position)
    THEN apply_attraction_force(p, b, player_pos, dt)
    ELSE p

update_pickup_attraction(p, b, player_pos, dt) ==
    IF p.being_attracted
    THEN handle_ongoing_attraction(p, b, player_pos, dt)
    ELSE handle_initial_attraction(p, b, player_pos, dt)

\* the body of the loop of update_tractor_beam_attraction
UpdatePickup(p, b, player_pos, dt) ==
    IF p.collected THEN p
    ELSE IF b.active THEN update_pickup_attraction(p, b, player_pos, dt)
    ELSE IF p.being_attracted THEN reset_to_wall(p)
    ELSE p

update_tractor_beam_attraction(pm, b, player_pos, dt) ==
    [pm EXCEPT !.pickups =
        [i \in 1..Len(pm.pickups) |-> UpdatePickup(pm.pickups[i], b, player_pos, dt)]]

Attracted(p) == ~p.collected /\ p.being_attracted

get_attracted_pickups(pm) == SelectSeq(pm.pickups, Attracted)

\* (mutant) a collected pickup is collected again
collectAgain(pm, index) ==
    IF index <= Len(pm.pickups)
    THEN [pm |-> [pm EXCEPT !.pickups[index] = collect(@)],
          result |-> <<pm.pickups[index].pickup_type>>]
    ELSE [pm |-> pm, result |-> << >>]

\* collect_pickup(index), index counted from 1 here; the result is <<kind>>
\* for Some(kind) and << >> for None
collect_pickup(pm, index) ==
    IF index <= Len(pm.pickups) /\ ~pm.pickups[index].collected
    THEN [pm |-> [pm EXCEPT !.pickups[index] = collect(@)],
          result |-> <<pm.pickups[index].pickup_type>>]
    ELSE [pm |-> pm, result |-> << >>]

\* (mutant) a collected pickup at camera_x - CLEANUP_DISTANCE is kept
RetainedFrom(p, camera_x) ==
    ~p.collected \/ PosX(p.position) >= F32RoundS((camera_x - CLEANUP_DISTANCE) * H)

\* the closure of retain in cleanup_old_pickups
Retained(p, camera_x) ==
    ~p.collected \/ PosX(p.position) > F32RoundS((camera_x - CLEANUP_DISTANCE) * H)

cleanup_old_pickups(pm, camera_x) ==
    [pm EXCEPT !.pickups = SelectSeq(@, LAMBDA p : Retained(p, camera_x))]

\* (mutant) boxes that touch collide
CollidesOrTouches(p, player_pos, player_size) ==
    /\ PosX(p.position) <= F32Round((player_pos[1] + player_size[1]) * H)
    /\ F32Round(PosX(p.position) + SIZE * H) >= player_pos[1] * H
    /\ p.position[2] <= F32Round((player_pos[2] + player_size[2]) * H)
    /\ F32Round(p.position[2] + SIZE * H) >= player_pos[2] * H

\* the test of check_collision on one pickup: pickup.position.0 < player_right
\* && pickup_right > player_pos.0 && pickup.position.1 < player_bottom &&
\* pickup_bottom > player_pos.1; the player box in whole pixels
Collides(p, player_pos, player_size) ==
    /\ PosX(p.position) < F32Round((player_pos[1] + player_size[1]) * H)
    /\ F32Round(PosX(p.position) + SIZE * H) > player_pos[1] * H
    /\ p.position[2] < F32Round((player_pos[2] + player_size[2]) * H)
    /\ F32Round(p.position[2] + SIZE * H) > player_pos[2] * H

\* the indices check_collision would return at
Colliding(pm, player_pos, player_size) ==
    {i \in 1..Len(pm.pickups) :
        ~pm.pickups[i].collected /\ Collides(pm.pickups[i], player_pos, player_size)}

\* check_collision: <<index>> for Some(index), counted from 1 here, << >> for
\* None
check_collision(pm, player_pos, player_size) ==
    IF Colliding(pm, player_pos, player_size) = {} THEN << >>
    ELSE <<CHOOSE i \in Colliding(pm, player_pos, player_size) :
              \A j \in Colliding(pm, player_pos, player_size) : i <= j>>

---------------------------------------------------------------------------
(* Aabb (core/src/collision.rs): boxes as <<x, y, width, height>> in units of
   2^-18 pixel *)

right(a) == F32RoundS(a[1] + a[3])

bottom(a) == F32RoundS(a[2] + a[4])

check_aabb_overlap(a, b) ==
    IF right(a) <= b[1] \/ right(b) <= a[1] THEN FALSE
    ELSE IF bottom(a) <= b[2] \/ bottom(b) <= a[2] THEN FALSE
    ELSE TRUE

aabb_overlap(a_pos, a_size, b_pos, b_size) ==
    check_aabb_overlap(<<a_pos[1], a_pos[2], a_size[1], a_size[2]>>,
                       <<b_pos[1], b_pos[2], b_size[1], b_size[2]>>)

---------------------------------------------------------------------------
(* Fuel (core/src/fuel.rs).  Amounts count 2^-24 of a unit of fuel, the burn *)
(* rate is whole units per second, a dt is the f32 m * 2^-e seconds.         *)

F == T24             \* fuel amount units per unit of fuel

\* Fuel::new(max, burn_rate)
FuelNew(max, burn_rate) == [current |-> max, max |-> max, burn_rate |-> burn_rate]

\* current - burn_amount as f32
Burnt(current, burn_amount) ==
    IF burn_amount.m = 0 THEN current ELSE -F32AddFix(-current, burn_amount, 24)

\* (mutant) burn reports an empty tank, not the moment it empties
BurnLevel(f, current) ==
    [fuel |-> [f EXCEPT !.current = current], result |-> current <= 0]

\* burn once the new level is known
BurnTo(f, current) ==
    [fuel |-> [f EXCEPT !.current = current],
     result |-> ~(f.current <= 0) /\ current <= 0]

\* burn(dt, consuming): the tank afterwards and the value returned
burn(f, dt, consuming) ==
    IF ~consuming THEN [fuel |-> f, result |-> FALSE]
    ELSE BurnTo(f, Max(Burnt(f.current, F32Mul(Norm(f.burn_rate, 0), dt)), 0))

\* (mutant) refill without the cap
refillUncapped(f, amount) == [f EXCEPT !.current = F32Round(f.current + amount)]

\* refill(amount)
refill(f, amount) ==
    [f EXCEPT !.current = Min(F32Round(f.current + amount), f.max)]

(***************************************************************************)
(* The player (core/src/player.rs).  A position counts 1/512 pixel, a       *)
(* velocity 1/8 pixel per second and a dt 1/64 second: with these every    *)
(* product of the tick is a whole count, and each f32 operation is the     *)
(* exact one followed by the rounding to 24 bits.                          *)
(***************************************************************************)
PX == 512

VS == 8

DT == 64

GRAVITY == 0

THRUST == -400

MAX_HORIZONTAL_SPEED == 200

HORIZONTAL_ACCELERATION == 800

PLAYER_HALF_WIDTH == 15

SCREEN_WIDTH == 800

MIN_SCREEN_X == PLAYER_HALF_WIDTH

MAX_SCREEN_X == SCREEN_WIDTH - PLAYER_HALF_WIDTH

\* Vec2::new, x and y in whole pixels
Vec2(x, y) == [x |-> x * PX, y |-> y * PX]

\* Player::new
PlayerNew(pos) == [pos |-> pos, vel |-> [x |-> 0, y |-> 0]]

\* a * dt for a in pixels per second (squared): a velocity, dt counted in 1/64
TimesDt(a, dt) == F32RoundS((a * VS * dt) \div DT)

apply_gravity(p, dt) ==
    [p EXCEPT !.vel.y = F32RoundS(@ + TimesDt(GRAVITY, dt))]

\* -THRUST * DOWN_THRUST_MULTIPLIER is 200.0
ThrustUp(p, dt, input) ==
    IF "up" \in input
    THEN [p EXCEPT !.vel.y = F32RoundS(@ + TimesDt(THRUST, dt))]
    ELSE p

ThrustDown(p, dt, input) ==
    IF "down" \in input
    THEN [p EXCEPT !.vel.y = F32RoundS(@ + TimesDt((-THRUST) \div 2, dt))]
    ELSE p

apply_thrust(p, dt, input) == ThrustDown(ThrustUp(p, dt, input), dt, input)

\* self.pos.x += scroll_speed * dt
Scrolled(p, dt, scroll_speed) ==
    [p EXCEPT !.pos.x = F32RoundS(@ + F32RoundS((scroll_speed * PX * dt) \div DT))]

screen_x(p, camera_offset_x) == F32RoundS(p.pos.x - camera_offset_x * PX)

at_left_boundary(p, camera_offset_x) ==
    screen_x(p, camera_offset_x) <= MIN_SCREEN_X * PX

at_right_boundary(p, camera_offset_x) ==
    screen_x(p, camera_offset_x) >= MAX_SCREEN_X * PX

AccelLeft(p, dt, input, at_left) ==
    IF "left" \in input /\ (~at_left \/ p.vel.x > 0)
    THEN [p EXCEPT !.vel.x = F32RoundS(@ - TimesDt(HORIZONTAL_ACCELERATION, dt))]
    ELSE p

AccelRight(p, dt, input, at_right) ==
    IF "right" \in input /\ (~at_right \/ p.vel.x < 0)
    THEN [p EXCEPT !.vel.x = F32RoundS(@ + TimesDt(HORIZONTAL_ACCELERATION, dt))]
    ELSE p

\* f32::clamp
Clamp(v, lo, hi) == IF v < lo THEN lo ELSE IF v > hi THEN hi ELSE v

ClampSpeed(p) ==
    [p EXCEPT !.vel.x = Clamp(@, -MAX_HORIZONTAL_SPEED * VS,
                              MAX_HORIZONTAL_SPEED * VS)]

\* the boundary constraints on position and velocity
Constrain(p, camera_offset_x, at_left, at_right) ==
    IF at_left /\ p.vel.x < 0
    THEN [p EXCEPT !.pos.x = F32RoundS((camera_offset_x + MIN_SCREEN_X) * PX),
                   !.vel.x = 0]
    ELSE IF at_right /\ p.vel.x > 0
    THEN [p EXCEPT !.pos.x = F32RoundS((camera_offset_x + MAX_SCREEN_X) * PX),
                   !.vel.x = 0]
    ELSE p

\* the steps after the scroll, with the two boundary flags taken before them
Accelerated(p, dt, input, camera_offset_x, at_left, at_right) ==
    Constrain(ClampSpeed(AccelRight(AccelLeft(p, dt, input, at_left),
                                    dt, input, at_right)),
              camera_offset_x, at_left, at_right)

Bounded(p, dt, input, camera_offset_x) ==
    Accelerated(p, dt, input, camera_offset_x,
                at_left_boundary(p, camera_offset_x),
                at_right_boundary(p, camera_offset_x))

apply_horizontal_movement(p, dt, input, scroll_speed, camera_offset_x) ==
    Bounded(Scrolled(p, dt, scroll_speed), dt, input, camera_offset_x)

\* velocity (1/8 pixel per second) times dt (1/64 second), in 1/512 pixel
update_position(p, dt) ==
    [p EXCEPT !.pos.x = F32RoundS(@ + F32RoundS(p.vel.x * dt)),
              !.pos.y = F32RoundS(@ + F32RoundS(p.vel.y * dt))]

\* Player::tick
player_tick(p, dt, input, scroll_speed, camera_offset_x) ==
    update_position(
        apply_horizontal_movement(apply_thrust(apply_gravity(p, dt), dt, input),
                                  dt, input, scroll_speed, camera_offset_x),
        dt)

(***************************************************************************)
(* The game state machine (core/src/game_state.rs).                        *)
(***************************************************************************)
GameState == {"Menu", "Playing", "Paused", "GameOver"}

GameEvent == {"Start", "PauseToggle", "Dead", "Reset"}

\* (mutant) Reset leaves a running game as well
nextResetAlways(state, event) ==
    IF event = "Reset" THEN "Menu"
    ELSE IF state \in {"Menu", "GameOver"} /\ event = "Start" THEN "Playing"
    ELSE IF state = "Playing" /\ event = "PauseToggle" THEN "Paused"
    ELSE IF state = "Playing" /\ event = "Dead" THEN "GameOver"
    ELSE IF state = "Paused" /\ event = "PauseToggle" THEN "Playing"
    ELSE state

\* GameState::next: the arms of the match, in order
next(state, event) ==
    IF state = "Menu" /\ event = "Start" THEN "Playing"
    ELSE IF state = "Menu" /\ event = "Reset" THEN "Menu"
    ELSE IF state = "Playing" /\ event = "PauseToggle" THEN "Paused"
    ELSE IF state = "Playing" /\ event = "Dead" THEN "GameOver"
    ELSE IF state = "Paused" /\ event = "PauseToggle" THEN "Playing"
    ELSE IF state = "Paused" /\ event = "Reset" THEN "Menu"
    ELSE IF state = "GameOver" /\ event = "Start" THEN "Playing"
    ELSE IF state = "GameOver" /\ event = "Reset" THEN "Menu"
    ELSE state

StateMachineNew == [current_state |-> "Menu"]

current(sm) == sm.current_state

handle_event(sm, event) ==
    [sm EXCEPT !.current_state = next(sm.current_state, event)]

(***************************************************************************)
(* The level manager (core/src/level.rs).  Times and durations are whole   *)
(* seconds below 2^24, so that the f32 difference of two of them is exact; *)
(* a progress is the record [s, m, e] of the value s * m * 2^-e.           *)
(***************************************************************************)
Level(number, duration_seconds, fuel_spawn_distance, cave_width) ==
    [number |-> number, duration_seconds |-> duration_seconds,
     fuel_spawn_distance |-> fuel_spawn_distance, cave_width |-> cave_width]

DefaultLevels ==
    <<Level(1, 60, 300, 200), Level(2, 90, 400, 180), Level(3, 120, 500, 160),
      Level(4, 120, 600, 140), Level(5, 150, 700, 120), Level(6, 180, 800, 100)>>

LevelManagerNew ==
    [levels |-> DefaultLevels, current_level_index |-> 0, level_start_time |-> 0]

\* Ok(manager) is <<manager>>, Err(EmptyLevelList) is the error's name
with_levels(levels) ==
    IF Len(levels) = 0 THEN "EmptyLevelList"
    ELSE <<[levels |-> levels, current_level_index |-> 0, level_start_time |-> 0]>>

\* self.levels.get(self.current_level_index): indices count from 0
HasLevel(lm) == lm.current_level_index < Len(lm.levels)

GetLevel(lm) == lm.levels[lm.current_level_index + 1]

current_level(lm) ==
    IF HasLevel(lm) THEN <<GetLevel(lm)>> ELSE "InvalidLevelIndex"

\* (mutant) the index is not capped at the last level
advanceUncapped(lm, current_time) ==
    [lm EXCEPT !.current_level_index = @ + 1, !.level_start_time = current_time]

advance_level(lm, current_time) ==
    [lm EXCEPT !.current_level_index =
                   IF @ < Len(lm.levels) - 1 THEN @ + 1 ELSE @,
               !.level_start_time = current_time]

Elapsed(lm, current_time) == F32RoundS(current_time - lm.level_start_time)

\* (mutant) a level ends only after its duration
DueAfter(lm, current_time) ==
    Elapsed(lm, current_time) > GetLevel(lm).duration_seconds

Due(lm, current_time) ==
    Elapsed(lm, current_time) >= GetLevel(lm).duration_seconds

\* (mutant) the next level starts where the finished one ended, the time
\* beyond its duration carried over
updateCarried(lm, current_time) ==
    IF ~HasLevel(lm) THEN [lm |-> lm, result |-> "InvalidLevelIndex"]
    ELSE IF Due(lm, current_time)
    THEN [lm |-> advance_level(lm, lm.level_start_time
                                       + GetLevel(lm).duration_seconds),
          result |-> <<TRUE>>]
    ELSE [lm |-> lm, result |-> <<FALSE>>]

\* the manager after the call and the result: <<bool>> for Ok(bool)
update(lm, current_time) ==
    IF ~HasLevel(lm) THEN [lm |-> lm, result |-> "InvalidLevelIndex"]
    ELSE IF Due(lm, current_time)
    THEN [lm |-> advance_level(lm, current_time), result |-> <<TRUE>>]
    ELSE [lm |-> lm, result |-> <<FALSE>>]

One == [s |-> 1, m |-> 1, e |-> 0]

\* a > 1.0
AboveOne(a) == a.s = 1 /\ (a.e < 0 \/ (a.e <= 23 /\ a.m > Pow2(a.e)))

\* (mutant) the quotient is clamped from below as well
ClampBoth(a) == IF a.s < 0 THEN [s |-> 0, m |-> 0, e |-> 0]
                ELSE IF AboveOne(a) THEN One ELSE a

\* a.min(1.0)
Min1(a) == IF AboveOne(a) THEN One ELSE a

Quotient(elapsed, duration) ==
    Signed(elapsed, F32Div(Norm(Abs(elapsed), 0), Norm(duration, 0)))

level_progress(lm, current_time) ==
    IF ~HasLevel(lm) THEN "InvalidLevelIndex"
    ELSE <<Min1(Quotient(Elapsed(lm, current_time),
                         GetLevel(lm).duration_seconds))>>

reset(lm) == [lm EXCEPT !.current_level_index = 0, !.level_start_time = 0]

(***************************************************************************)
(* The scan of test_integration_level_affects_spawning (core/src/pickup.rs)*)
(***************************************************************************)
SCAN_STEP == 50

ScanNew(seed, d1, d2) ==
    [manager |-> PickupManagerNew(U32(seed)),
     manager2 |-> PickupManagerNew(U32(seed)),
     level1 |-> Level(1, 60, d1, 200), level2 |-> Level(2, 60, d2, 180),
     spawn_count_1 |-> 0, spawn_count_2 |-> 0, x |-> 0]

Count(n, r) == IF r.result THEN n + 1 ELSE n

Scanned(sc, r1, r2) ==
    [sc EXCEPT !.manager = r1.pm, !.manager2 = r2.pm,
               !.spawn_count_1 = Count(@, r1),
               !.spawn_count_2 = Count(@, r2),
               !.x = @ + SCAN_STEP]

ScanAt(sc) ==
    Scanned(sc,
            should_spawn_pickup(sc.manager, sc.x, sc.level1.fuel_spawn_distance),
            should_spawn_pickup(sc.manager2, sc.x, sc.level2.fuel_spawn_distance))

---------------------------------------------------------------------------
(* The state machine *)

\* The record of a call: its name, its arguments, what it returned (done,
\* result), the number of segments it generated (made), the candidate pair of
\* a generate_next, and what the call found: the number of segments and of
\* pickups, the cursor, the two random streams, the pickup manager, the
\* beam, the game state and the level manager.
Call(name) ==
    [name |-> name, level |-> 0, x_min |-> 0, x_max |-> 0, d |-> 0,
     done |-> TRUE, result |-> << >>, made |-> 0, dir |-> "Up", dt |-> 0,
     x |-> 0, player |-> <<0, 0>>,
     candidate |-> [ceiling |-> 0, floor |-> 0],
     before_manager |-> cave.pickup_manager,
     before_segments |-> Len(cave.segments),
     before_pickups |-> Len(cave.pickup_manager.pickups),
     before_next_x |-> cave.next_x,
     before_rng |-> cave.rng,
     before_pickup_rng |-> cave.pickup_manager.rng,
     before_beam |-> beam,
     event |-> "Start", t |-> 0, levels |-> << >>,
     before_state |-> state_machine,
     before_level |-> level_manager,
     min |-> 0, max |-> 0, unit |-> 0, before_own_rng |-> simple_rng,
     input |-> {}, scroll_speed |-> 0, camera_offset_x |-> 0,
     before_player |-> player]

Init ==
    /\ \E seed \in Seeds :
          /\ cave = CaveNew(seed)
          /\ twin = CaveNew(seed)
    /\ beam = TractorBeamNew
    /\ state_machine = StateMachineNew
    /\ level_manager = LevelManagerNew
    /\ simple_rng = SimpleRngNew(U32(42))
    /\ player = PlayerNew(Vec2(100, 100))
    /\ scan = ScanNew(123, 200, 600)
    /\ op = [Call("new") EXCEPT !.before_segments = 0, !.before_pickups = 0]
    /\ hist = cave.segments
    /\ steps = 0
    /\ fuel = FuelNew(0, 0)
    /\ life = LifeNew
    /\ trail = << >>
    /\ burns = << >>

\* a call that never returns leaves nothing to call afterwards
Running == op.done /\ steps < MaxSteps

GenerateNext ==
    /\ Running
    /\ \E d \in SpawnDistances :
          /\ cave' = generate_next(cave, d)
          /\ hist' = Append(hist, NextSegment(cave).segment)
          /\ op' = [Call("generate_next") EXCEPT
                       !.d = d, !.made = 1,
                       !.candidate = NextSegment(cave).candidate]
    /\ steps' = steps + 1
    /\ UNCHANGED <<twin, beam, fuel, life, trail, burns,
                   state_machine, level_manager, simple_rng, player, scan>>

SegmentsInView ==
    /\ Running
    /\ \E v \in Views, d \in SpawnDistances :
          \E r \in {segments_in_view(cave, v[1], v[2], d)} :
              /\ cave' = r.cave
              /\ hist' = hist \o r.made
              /\ op' = [Call("segments_in_view") EXCEPT
                           !.x_min = v[1], !.x_max = v[2], !.d = d,
                           !.done = r.done, !.result = r.result,
                           !.made = Len(r.made)]
    /\ steps' = steps + 1
    /\ UNCHANGED <<twin, beam, fuel, life, trail, burns,
                   state_machine, level_manager, simple_rng, player, scan>>

ConfigureForLevel ==
    /\ Running
    /\ \E n \in Levels :
          /\ cave' = configure_for_level(cave, n)
          /\ op' = [Call("configure_for_level") EXCEPT !.level = n]
    /\ hist' = cave'.segments
    /\ steps' = steps + 1
    /\ UNCHANGED <<twin, beam, fuel, life, trail, burns,
                   state_machine, level_manager, simple_rng, player, scan>>

Activate ==
    /\ steps < MaxBeamSteps
    /\ \E dir \in Dirs :
          /\ beam' = activate(beam, dir)
          /\ op' = [Call("activate") EXCEPT !.dir = dir]
    /\ life' = LifeActivate(beam, life)
    /\ steps' = steps + 1
    /\ UNCHANGED <<cave, twin, hist, fuel, trail, burns,
                   state_machine, level_manager, simple_rng, player, scan>>

Tick ==
    /\ steps < MaxBeamSteps
    /\ \E dt \in Dts :
          /\ beam' = tick(beam, dt)
          /\ op' = [Call("tick") EXCEPT !.dt = dt]
          /\ life' = LifeTick(beam, life, dt)
    /\ steps' = steps + 1
    /\ UNCHANGED <<cave, twin, hist, fuel, trail, burns,
                   state_machine, level_manager, simple_rng, player, scan>>

Next == GenerateNext \/ SegmentsInView \/ ConfigureForLevel

Spec == Init /\ [][Next]_vars

NextBeam == Activate \/ Tick

SpecBeam == Init /\ [][NextBeam]_vars

\* The cave far along the tunnel.  Cave::new(42) after 18147247 calls of
\* generate_next(800.0) has generated up to x = 2^30 - 6912 and its streams are
\* at 3424700652 (segments) and 134306474 (pickups); the pickups so far have
\* been collected and cleaned up, and of the segments only the last matters
\* here, the hundred calls that follow evict it.
FarStart ==
    [segments |-> <<CaveSegment(12373902, 118744352, Pow2(30) - 6976, SEGMENT_WIDTH)>>,
     rng |-> <<52256, 51436>>,
     next_x |-> Pow2(30) - 6912,
     pickup_manager |-> [pickups |-> << >>,
                         rng |-> <<2049, 23210>>,
                         last_pickup_x |-> Pow2(30) - 7808,
                         next_pickup_distance |-> 266770832],
     base_ceiling |-> INITIAL_CEILING * H,
     base_floor |-> INITIAL_FLOOR * H]

\* a hundred calls of generate_next(800.0) later, the cursor at 2^30 - 512
FarCave ==
    ViewLoop([cave |-> FarStart, hung |-> FALSE, made |-> << >>],
             Pow2(30) - 512, INITIAL_SPAWN_DELAY).cave

\* <<x_min, x_max>> around x = 2^30, where the spacing of f32 goes from 64 to 128
FarViews ==
    {<<Pow2(30) - 6400, Pow2(30) - 1024>>, <<Pow2(30) - 2048, Pow2(30) - 320>>,
     <<Pow2(30) - 2048, Pow2(30) - 64>>, <<Pow2(30) - 2048, Pow2(30)>>,
     <<Pow2(30) - 2048, Pow2(30) + 128>>}

InitFar ==
    /\ cave = FarCave
    /\ twin = FarCave
    /\ beam = TractorBeamNew
    /\ state_machine = StateMachineNew
    /\ level_manager = LevelManagerNew
    /\ simple_rng = SimpleRngNew(U32(42))
    /\ player = PlayerNew(Vec2(100, 100))
    /\ scan = ScanNew(123, 200, 600)
    /\ op = Call("new")
    /\ hist = cave.segments
    /\ steps = 0
    /\ fuel = FuelNew(0, 0)
    /\ life = LifeNew
    /\ trail = << >>
    /\ burns = << >>

FarGenerateNext == GenerateNext

FarSegmentsInView ==
    /\ Running
    /\ \E v \in FarViews, d \in SpawnDistances :
          \E r \in {segments_in_view(cave, v[1], v[2], d)} :
              /\ cave' = r.cave
              /\ hist' = hist \o r.made
              /\ op' = [Call("segments_in_view") EXCEPT
                           !.x_min = v[1], !.x_max = v[2], !.d = d,
                           !.done = r.done, !.result = r.result,
                           !.made = Len(r.made)]
    /\ steps' = steps + 1
    /\ UNCHANGED <<twin, beam, fuel, life, trail, burns,
                   state_machine, level_manager, simple_rng, player, scan>>

\* Level numbers from 0, in either build.
AnyLevels == 0..MaxLevel

LevelsGenerateNext == GenerateNext

ConfigureInBuild ==
    /\ Running
    /\ \E n \in AnyLevels, build \in Builds :
          \E r \in {configure_in_build(cave, n, build)} :
              /\ cave' = r.cave
              /\ hist' = IF r.done THEN cave'.segments ELSE hist
              /\ op' = [Call("configure_for_level") EXCEPT
                           !.level = n, !.done = r.done]
    /\ steps' = steps + 1
    /\ UNCHANGED <<twin, beam, fuel, life, trail, burns,
                   state_machine, level_manager, simple_rng, player, scan>>

NextLevels == LevelsGenerateNext \/ ConfigureInBuild

SpecLevels == Init /\ [][NextLevels]_vars

NextFar == FarGenerateNext \/ FarSegmentsInView

SpecFar == InitFar /\ [][NextFar]_vars

\* The cave where the spacing of f32 reaches 4.  Cave::new(42) after 670887
\* calls of generate_next(800.0) has generated up to x = 2^25 - 10032 and its
\* streams are at 1394865852 (segments) and 3991170418 (pickups); the pickups
\* so far have been collected and cleaned up, and of the segments only the
\* last matters here, the first view evicts it.
DeepStart ==
    [segments |-> <<CaveSegment(14121063, 117505440, Pow2(25) - 10082, SEGMENT_WIDTH)>>,
     rng |-> <<21283, 63164>>,
     next_x |-> Pow2(25) - 10032,
     pickup_manager |-> [pickups |-> << >>,
                         rng |-> <<60900, 28018>>,
                         last_pickup_x |-> Pow2(25) - 10156,
                         next_pickup_distance |-> 223202192],
     base_ceiling |-> INITIAL_CEILING * H,
     base_floor |-> INITIAL_FLOOR * H]

\* the widest view the retained segments are meant to hold
WIDEST_VIEW == (MAX_SEGMENTS - 2) * SEGMENT_WIDTH

\* <<x_min, x_max>> around x = 2^25: views of the widest kind before 2^25,
\* across it and beyond it, and a view as wide as the screen beyond it
DeepViews ==
    {<<Pow2(25) - 10000, Pow2(25) - 10000 + WIDEST_VIEW>>,
     <<Pow2(25) - 4000, Pow2(25) - 4000 + WIDEST_VIEW>>,
     <<Pow2(25) + 5000, Pow2(25) + 5000 + WIDEST_VIEW>>,
     <<Pow2(25) + 9000, Pow2(25) + 9000 + SCREEN_WIDTH>>,
     <<Pow2(25) + 10000, Pow2(25) + 10000 + WIDEST_VIEW>>}

InitDeep ==
    /\ cave = DeepStart
    /\ twin = DeepStart
    /\ beam = TractorBeamNew
    /\ state_machine = StateMachineNew
    /\ level_manager = LevelManagerNew
    /\ simple_rng = SimpleRngNew(U32(42))
    /\ player = PlayerNew(Vec2(100, 100))
    /\ scan = ScanNew(123, 200, 600)
    /\ op = Call("new")
    /\ hist = cave.segments
    /\ steps = 0
    /\ fuel = FuelNew(0, 0)
    /\ life = LifeNew
    /\ trail = << >>
    /\ burns = << >>

\* the camera only moves forward: x_min is at least that of the view before
DeepSegmentsInView ==
    /\ Running
    /\ \E v \in DeepViews, d \in SpawnDistances :
          /\ v[1] >= op.x_min
          /\ \E r \in {segments_in_view(cave, v[1], v[2], d)} :
                /\ cave' = r.cave
                /\ hist' = hist \o r.made
                /\ op' = [Call("segments_in_view") EXCEPT
                             !.x_min = v[1], !.x_max = v[2], !.d = d,
                             !.done = r.done, !.result = r.result,
                             !.made = Len(r.made)]
    /\ steps' = steps + 1
    /\ UNCHANGED <<twin, beam, fuel, life, trail, burns,
                   state_machine, level_manager, simple_rng, player, scan>>

NextDeep == DeepSegmentsInView

SpecDeep == InitDeep /\ [][NextDeep]_vars

\* Two caves built with the same seed.  First the one, cave, is used alone
\* (GenerateNext, SegmentsInView); then every call is made on both.
JointCalls == {"both_configure_for_level", "both_generate_next", "both_segments_in_view"}

\* <<x_min, x_max>> of the calls made on both
JointViews == {<<100, 200>>, <<2600, 5300>>}

Alone == op.name \notin JointCalls

AloneGenerateNext == Alone /\ GenerateNext

AloneSegmentsInView == Alone /\ SegmentsInView

BothConfigureForLevel ==
    /\ Running
    /\ \E n \in Levels :
          /\ cave' = configure_for_level(cave, n)
          /\ twin' = configure_for_level(twin, n)
          /\ op' = [Call("both_configure_for_level") EXCEPT !.level = n]
    /\ hist' = cave'.segments
    /\ steps' = steps + 1
    /\ UNCHANGED <<beam, fuel, life, trail, burns,
                   state_machine, level_manager, simple_rng, player, scan>>

BothGenerateNext ==
    /\ Running
    /\ ~Alone
    /\ \E d \in SpawnDistances :
          /\ cave' = generate_next(cave, d)
          /\ twin' = generate_next(twin, d)
          /\ hist' = Append(hist, NextSegment(cave).segment)
          /\ op' = [Call("both_generate_next") EXCEPT
                       !.d = d, !.made = 1,
                       !.candidate = NextSegment(cave).candidate]
    /\ steps' = steps + 1
    /\ UNCHANGED <<beam, fuel, life, trail, burns,
                   state_machine, level_manager, simple_rng, player, scan>>

BothSegmentsInView ==
    /\ Running
    /\ ~Alone
    /\ \E v \in JointViews, d \in SpawnDistances :
          \E r \in {segments_in_view(cave, v[1], v[2], d)},
             t \in {segments_in_view(twin, v[1], v[2], d)} :
              /\ cave' = r.cave
              /\ twin' = t.cave
              /\ hist' = hist \o r.made
              /\ op' = [Call("both_segments_in_view") EXCEPT
                           !.x_min = v[1], !.x_max = v[2], !.d = d,
                           !.done = r.done /\ t.done, !.result = r.result,
                           !.made = Len(r.made)]
    /\ steps' = steps + 1
    /\ UNCHANGED <<beam, fuel, life, trail, burns,
                   state_machine, level_manager, simple_rng, player, scan>>

NextTwin ==
    \/ AloneGenerateNext
    \/ AloneSegmentsInView
    \/ BothConfigureForLevel
    \/ BothGenerateNext
    \/ BothSegmentsInView

SpecTwin == Init /\ [][NextTwin]_vars

\* The pickup manager of a cave asked directly, between calls of the cave.
\* x of should_spawn_pickup: around the first segments and around the initial
\* spawn delay
SpawnXs == {0, 100, INITIAL_SPAWN_DELAY - 1, INITIAL_SPAWN_DELAY, 1200}

ShouldSpawnPickup ==
    /\ Running
    /\ \E x \in SpawnXs, d \in SpawnDistances :
          \E r \in {should_spawn_pickup(cave.pickup_manager, x, d)} :
              /\ cave' = [cave EXCEPT !.pickup_manager = r.pm]
              /\ op' = [Call("should_spawn_pickup") EXCEPT
                           !.x = x, !.d = d, !.result = r.result]
    /\ steps' = steps + 1
    /\ UNCHANGED <<twin, beam, hist, fuel, life, trail, burns,
                   state_machine, level_manager, simple_rng, player, scan>>

SpawnGenerateNext == GenerateNext

SpawnConfigureForLevel == ConfigureForLevel

NextSpawn == ShouldSpawnPickup \/ SpawnGenerateNext \/ SpawnConfigureForLevel

SpecSpawn == Init /\ [][NextSpawn]_vars

\* The Fuel tank alone.  Fuel::new(max, burn_rate) as <<max, burn_rate>>: two
\* tanks of the burn tests and an empty one.
Tanks == {<<1, 60>>, <<10, 60>>, <<0, 5>>}

\* dt >= 0 of a burn: 0, 1/60 (8947849 * 2^-29 as an f32), 0.5 and 1 seconds
FuelDts == {[m |-> 0, e |-> 0], [m |-> 8947849, e |-> 29], [m |-> 1, e |-> 1],
            [m |-> 1, e |-> 0]}

\* amount >= 0 of a refill: nothing, half a unit, and 2.75 units
Refills == {0, F \div 2, 2 * F + 3 * (F \div 4)}

InitFuel ==
    /\ cave = CaveNew(U32(RNG_SEED_OFFSET))
    /\ twin = cave
    /\ beam = TractorBeamNew
    /\ state_machine = StateMachineNew
    /\ level_manager = LevelManagerNew
    /\ simple_rng = SimpleRngNew(U32(42))
    /\ player = PlayerNew(Vec2(100, 100))
    /\ scan = ScanNew(123, 200, 600)
    /\ op = [Call("new") EXCEPT !.before_segments = 0, !.before_pickups = 0]
    /\ hist = cave.segments
    /\ steps = 0
    /\ \E t \in Tanks : fuel = FuelNew(t[1] * F, t[2])
    /\ life = LifeNew
    /\ trail = << >>
    /\ burns = << >>

Burn ==
    /\ steps < MaxFuelSteps
    /\ \E dt \in FuelDts, consuming \in BOOLEAN :
          \E r \in {burn(fuel, dt, consuming)} :
              /\ fuel' = r.fuel
              /\ burns' = Append(burns, [name |-> "burn", result |-> r.result,
                                         consuming |-> consuming,
                                         dt |-> dt, amount |-> 0,
                                         before |-> fuel.current,
                                         after |-> r.fuel.current])
    /\ op' = Call("burn")
    /\ steps' = steps + 1
    /\ UNCHANGED <<cave, twin, beam, hist, life, trail,
                   state_machine, level_manager, simple_rng, player, scan>>

Refill ==
    /\ steps < MaxFuelSteps
    /\ \E amount \in Refills :
          /\ fuel' = refill(fuel, amount)
          /\ burns' = Append(burns, [name |-> "refill", result |-> FALSE,
                                     consuming |-> FALSE,
                                     dt |-> [m |-> 0, e |-> 0], amount |-> amount,
                                     before |-> fuel.current,
                                     after |-> fuel'.current])
    /\ op' = Call("refill")
    /\ steps' = steps + 1
    /\ UNCHANGED <<cave, twin, beam, hist, life, trail,
                   state_machine, level_manager, simple_rng, player, scan>>

NextFuel == Burn \/ Refill

SpecFuel == InitFuel /\ [][NextFuel]_vars

\* The pickups under the tractor beam.  The cave has looked ahead once, as
\* the game does in its first frame, so that its pickup manager holds the
\* first pickups (the first one at x = 75 on the floor).
AttractCave == segments_in_view(CaveNew(U32(RNG_SEED_OFFSET)), 0, 400, 300).cave

SIXTEEN_MS == [m |-> 8589935, e |-> 29]     \* dt = 0.016 as an f32
ONE_S == [m |-> 1, e |-> 0]                 \* dt = 1.0

\* <<player_pos, dt>> of an update: the player above the first pickup, at
\* the edge of the narrow beam (16 px aside), at the edge of the hold width
\* (24 px aside) and outside both, and the player right above the pickup
AttractInputs ==
    {<<<<75, 240>>, ONE_S>>, <<<<75, 240>>, SIXTEEN_MS>>, <<<<59, 240>>, SIXTEEN_MS>>,
     <<<<51, 240>>, SIXTEEN_MS>>, <<<<35, 240>>, SIXTEEN_MS>>,
     <<<<75, 425>>, SIXTEEN_MS>>}

InitAttract ==
    /\ cave = AttractCave
    /\ twin = cave
    /\ beam = TractorBeamNew
    /\ state_machine = StateMachineNew
    /\ level_manager = LevelManagerNew
    /\ simple_rng = SimpleRngNew(U32(42))
    /\ player = PlayerNew(Vec2(100, 100))
    /\ scan = ScanNew(123, 200, 600)
    /\ op = Call("new")
    /\ hist = cave.segments
    /\ steps = 0
    /\ fuel = FuelNew(0, 0)
    /\ life = LifeNew
    /\ trail = << >>
    /\ burns = << >>

AttractActivate ==
    /\ steps < MaxAttractSteps
    /\ \E dir \in Dirs :
          /\ beam' = activate(beam, dir)
          /\ op' = [Call("activate") EXCEPT !.dir = dir]
    /\ trail' = << >>
    /\ steps' = steps + 1
    /\ UNCHANGED <<cave, twin, hist, fuel, life, burns,
                   state_machine, level_manager, simple_rng, player, scan>>

\* the beam runs out: tick(MAX_DURATION)
AttractExpire ==
    /\ steps < MaxAttractSteps
    /\ beam' = tick(beam, MAX_DURATION)
    /\ op' = [Call("tick") EXCEPT !.dt = MAX_DURATION]
    /\ trail' = << >>
    /\ steps' = steps + 1
    /\ UNCHANGED <<cave, twin, hist, fuel, life, burns,
                   state_machine, level_manager, simple_rng, player, scan>>

\* the being_attracted flags of the pickups
Flags(pm) == [i \in 1..Len(pm.pickups) |-> pm.pickups[i].being_attracted]

\* trail: the flags after each of the latest updates made one after another
\* with the beam active and the same player position
Trailed(t, b, player_pos, pm) ==
    IF b.active /\ t # << >> /\ Last(t).player = player_pos
    THEN Append(t, [player |-> player_pos, flags |-> Flags(pm)])
    ELSE IF b.active THEN <<[player |-> player_pos, flags |-> Flags(pm)]>>
    ELSE << >>

UpdateTractorBeamAttraction ==
    /\ steps < MaxAttractSteps
    /\ \E i \in AttractInputs :
          /\ cave' = [cave EXCEPT !.pickup_manager =
                         update_tractor_beam_attraction(@, beam, i[1], i[2])]
          /\ op' = [Call("update_tractor_beam_attraction") EXCEPT
                       !.player = i[1], !.dt = i[2]]
          /\ trail' = Trailed(trail, beam, i[1], cave'.pickup_manager)
    /\ steps' = steps + 1
    /\ UNCHANGED <<twin, beam, hist, fuel, life, burns,
                   state_machine, level_manager, simple_rng, player, scan>>

\* index: every valid index and the first invalid one
CollectPickup ==
    /\ steps < MaxAttractSteps
    /\ \E index \in 1..Len(cave.pickup_manager.pickups) + 1 :
          \E r \in {collect_pickup(cave.pickup_manager, index)} :
              /\ cave' = [cave EXCEPT !.pickup_manager = r.pm]
              /\ op' = [Call("collect_pickup") EXCEPT !.x = index, !.result = r.result]
    /\ trail' = << >>
    /\ steps' = steps + 1
    /\ UNCHANGED <<twin, beam, hist, fuel, life, burns,
                   state_machine, level_manager, simple_rng, player, scan>>

\* camera_x of a cleanup: the camera at the start, 1000 px past the first
\* pickup, and past every pickup
CameraXs == {0, 1075, 1500}

CleanupOldPickups ==
    /\ steps < MaxAttractSteps
    /\ \E camera_x \in CameraXs :
          /\ cave' = [cave EXCEPT !.pickup_manager = cleanup_old_pickups(@, camera_x)]
          /\ op' = [Call("cleanup_old_pickups") EXCEPT !.x = camera_x]
    /\ trail' = << >>
    /\ steps' = steps + 1
    /\ UNCHANGED <<twin, beam, hist, fuel, life, burns,
                   state_machine, level_manager, simple_rng, player, scan>>

\* the top left corner of the player box: touching the first pickup from the
\* left, overlapping it by a pixel, touching it from the right, over the second
\* pickup, and far from both; the box has the size of the player or covers the
\* whole view (the last one)
PlayerBoxes ==
    {<<<<45, 420>>, <<PLAYER_WIDTH, PLAYER_HEIGHT>>>>,
     <<<<46, 420>>, <<PLAYER_WIDTH, PLAYER_HEIGHT>>>>,
     <<<<95, 420>>, <<PLAYER_WIDTH, PLAYER_HEIGHT>>>>,
     <<<<410, 410>>, <<PLAYER_WIDTH, PLAYER_HEIGHT>>>>,
     <<<<200, 300>>, <<PLAYER_WIDTH, PLAYER_HEIGHT>>>>,
     <<<<0, 0>>, <<500, 600>>>>}

CheckCollision ==
    /\ steps < MaxAttractSteps
    /\ \E b \in PlayerBoxes :
          op' = [Call("check_collision") EXCEPT
                    !.player = b[1], !.d = b[2],
                    !.result = check_collision(cave.pickup_manager, b[1], b[2])]
    /\ steps' = steps + 1
    /\ UNCHANGED <<cave, twin, beam, hist, fuel, life, trail, burns,
                   state_machine, level_manager, simple_rng, player, scan>>

NextAttract ==
    \/ AttractActivate
    \/ AttractExpire
    \/ UpdateTractorBeamAttraction
    \/ CollectPickup
    \/ CleanupOldPickups
    \/ CheckCollision

SpecAttract == InitAttract /\ [][NextAttract]_vars

\* The game: events on the state machine, and the level manager driven with
\* the clock of the main loop.
MaxGameSteps == 4

TestLevels == <<Level(1, 10, 100, 200), Level(2, 10, 100, 200)>>

LevelLists == {<< >>, TestLevels, DefaultLevels}

Times == {0, 11, 22, 30, 60, 61, 151}

HandleEvent ==
    /\ steps < MaxGameSteps
    /\ \E event \in GameEvent :
          /\ state_machine' = handle_event(state_machine, event)
          /\ op' = [Call("handle_event") EXCEPT !.event = event]
    /\ steps' = steps + 1
    /\ UNCHANGED <<cave, twin, beam, hist, fuel, life, trail, burns,
                   level_manager, simple_rng, player, scan>>

WithLevels ==
    /\ steps < MaxGameSteps
    /\ \E levels \in LevelLists :
          \E r \in {with_levels(levels)} :
              /\ level_manager' = IF r = "EmptyLevelList" THEN level_manager
                                  ELSE r[1]
              /\ op' = [Call("with_levels") EXCEPT
                           !.levels = levels, !.result = r]
    /\ steps' = steps + 1
    /\ UNCHANGED <<cave, twin, beam, hist, fuel, life, trail, burns,
                   state_machine, simple_rng, player, scan>>

Update ==
    /\ steps < MaxGameSteps
    /\ \E t \in Times :
          \E r \in {update(level_manager, t)} :
              /\ level_manager' = r.lm
              /\ op' = [Call("update") EXCEPT !.t = t, !.result = r.result]
    /\ steps' = steps + 1
    /\ UNCHANGED <<cave, twin, beam, hist, fuel, life, trail, burns,
                   state_machine, simple_rng, player, scan>>

LevelProgress ==
    /\ steps < MaxGameSteps
    /\ \E t \in Times :
          op' = [Call("level_progress") EXCEPT
                    !.t = t, !.result = level_progress(level_manager, t)]
    /\ steps' = steps + 1
    /\ UNCHANGED <<cave, twin, beam, hist, fuel, life, trail, burns,
                   state_machine, level_manager, simple_rng, player, scan>>

Reset ==
    /\ steps < MaxGameSteps
    /\ level_manager' = reset(level_manager)
    /\ op' = Call("reset")
    /\ steps' = steps + 1
    /\ UNCHANGED <<cave, twin, beam, hist, fuel, life, trail, burns,
                   state_machine, simple_rng, player, scan>>

NextGame == HandleEvent \/ WithLevels \/ Update \/ LevelProgress \/ Reset

SpecGame == Init /\ [][NextGame]_vars

\* A generator of its own: draws of next_f32 and of range(min, max), min and
\* max whole numbers, the result counted in units 2^-unit (the f32 between
\* 8 and 32 are whole counts of 2^-20).
MaxRngSteps == 5

\* <<3517, 47902>> and <<40833, 62467>> (230538014 and 2676093955) are
\* followed by the states 2^32 - 1 and 2^32 - 128, <<45256, 2206>>
\* (2965899422) by 2^32 - 129, <<64631, 42627>> (4235699843) by 0
RngSeeds ==
    {U32(0), U32(42), U32(123), U32(12345), <<3517, 47902>>, <<40833, 62467>>,
     <<45256, 2206>>, <<64631, 42627>>}

RngRanges == {[min |-> 10, max |-> 20, unit |-> 20],
              [min |-> -20, max |-> -10, unit |-> 20]}

InitRng ==
    /\ cave = CaveNew(U32(42))
    /\ twin = cave
    /\ beam = TractorBeamNew
    /\ state_machine = StateMachineNew
    /\ level_manager = LevelManagerNew
    /\ simple_rng \in {SimpleRngNew(seed) : seed \in RngSeeds}
    /\ player = PlayerNew(Vec2(100, 100))
    /\ scan = ScanNew(123, 200, 600)
    /\ op = [Call("new") EXCEPT !.before_segments = 0, !.before_pickups = 0]
    /\ hist = cave.segments
    /\ steps = 0
    /\ fuel = FuelNew(0, 0)
    /\ life = LifeNew
    /\ trail = << >>
    /\ burns = << >>

NextF32 ==
    /\ steps < MaxRngSteps
    /\ \E d \in {next_f32(simple_rng)} :
          /\ simple_rng' = d.rng
          /\ op' = [Call("next_f32") EXCEPT !.result = d.val]
    /\ steps' = steps + 1
    /\ UNCHANGED <<cave, twin, beam, hist, fuel, life, trail, burns,
                   state_machine, level_manager, player, scan>>

Range ==
    /\ steps < MaxRngSteps
    /\ \E r \in RngRanges :
          \E d \in {range(simple_rng, r.min * Pow2(r.unit),
                          F32RoundS(r.max - r.min) * Pow2(r.unit), r.unit)} :
              /\ simple_rng' = d.rng
              /\ op' = [Call("range") EXCEPT
                           !.min = r.min, !.max = r.max, !.unit = r.unit,
                           !.result = d.val]
    /\ steps' = steps + 1
    /\ UNCHANGED <<cave, twin, beam, hist, fuel, life, trail, burns,
                   state_machine, level_manager, player, scan>>

NextRng == NextF32 \/ Range

SpecRng == InitRng /\ [][NextRng]_vars

\* The player: ticks with the inputs of a frame.
MaxPlayerSteps == 3

PlayerStarts == {Vec2(15, 100), Vec2(16, 100), Vec2(100, 100), Vec2(784, 100)}

PlayerInputs ==
    {{}, {"left"}, {"right"}, {"left", "up"}, {"right", "down"}}

PlayerDts == {1, 2}

\* <<scroll_speed, camera_offset_x>>
PlayerCameras == {<<0, 0>>, <<120, 0>>, <<0, 1>>}

InitPlayer ==
    /\ cave = CaveNew(U32(42))
    /\ twin = cave
    /\ beam = TractorBeamNew
    /\ state_machine = StateMachineNew
    /\ level_manager = LevelManagerNew
    /\ simple_rng = SimpleRngNew(U32(42))
    /\ player \in {PlayerNew(pos) : pos \in PlayerStarts}
    /\ scan = ScanNew(123, 200, 600)
    /\ op = [Call("new") EXCEPT !.before_segments = 0, !.before_pickups = 0]
    /\ hist = cave.segments
    /\ steps = 0
    /\ fuel = FuelNew(0, 0)
    /\ life = LifeNew
    /\ trail = << >>
    /\ burns = << >>

PlayerTick ==
    /\ steps < MaxPlayerSteps
    /\ \E dt \in PlayerDts, input \in PlayerInputs, c \in PlayerCameras :
          /\ player' = player_tick(player, dt, input, c[1], c[2])
          /\ op' = [Call("tick") EXCEPT
                       !.dt = dt, !.input = input, !.scroll_speed = c[1],
                       !.camera_offset_x = c[2]]
    /\ steps' = steps + 1
    /\ UNCHANGED <<cave, twin, beam, hist, fuel, life, trail, burns,
                   state_machine, level_manager, simple_rng, scan>>

NextPlayer == PlayerTick

SpecPlayer == InitPlayer /\ [][NextPlayer]_vars

\* The scan of test_integration_level_affects_spawning: two managers built
\* from the same seed are asked at x = 0, 50, 100, .. with the spawn
\* distances of two levels, and the approvals of each are counted.
MaxScanSteps == 40

ScanSeeds == {42, 123, 12345}

\* <<fuel_spawn_distance of level1, of level2>>
ScanLevels == {<<200, 600>>, <<300, 800>>, <<200, 210>>}

InitScan ==
    /\ cave = CaveNew(U32(42))
    /\ twin = cave
    /\ beam = TractorBeamNew
    /\ state_machine = StateMachineNew
    /\ level_manager = LevelManagerNew
    /\ simple_rng = SimpleRngNew(U32(42))
    /\ player = PlayerNew(Vec2(100, 100))
    /\ \E seed \in ScanSeeds, d \in ScanLevels :
          scan = ScanNew(seed, d[1], d[2])
    /\ op = [Call("new") EXCEPT !.before_segments = 0, !.before_pickups = 0]
    /\ hist = cave.segments
    /\ steps = 0
    /\ fuel = FuelNew(0, 0)
    /\ life = LifeNew
    /\ trail = << >>
    /\ burns = << >>

ScanStep ==
    /\ steps < MaxScanSteps
    /\ scan' = ScanAt(scan)
    /\ op' = [Call("should_spawn_pickup") EXCEPT
                 !.x = scan.x,
                 !.result = <<scan'.spawn_count_1 > scan.spawn_count_1,
                              scan'.spawn_count_2 > scan.spawn_count_2>>]
    /\ steps' = steps + 1
    /\ UNCHANGED <<cave, twin, beam, hist, fuel, life, trail, burns,
                   state_machine, level_manager, simple_rng, player>>

NextScan == ScanStep

SpecScan == InitScan /\ [][NextScan]_vars

---------------------------------------------------------------------------
(* Properties *)


\* C1: every retained segment has floor - ceiling >= MIN_GAP, and a generate_next
\* whose candidate pair has a gap below MIN_GAP yields a segment with a gap of
\* exactly MIN_GAP around the candidate's midpoint (the midpoint as f32 computes
\* it); any other candidate becomes the segment unchanged.
C1_MinGap ==
    /\ \A i \in 1..Len(cave.segments) :
          cave.segments[i].floor - cave.segments[i].ceiling >= MIN_GAP * H
    /\ op.name = "generate_next" =>
          LET seg == Last(cave.segments)
              cand == op.candidate
          IN  IF cand.floor - cand.ceiling < MIN_GAP * H
              THEN /\ seg.floor - seg.ceiling = MIN_GAP * H
                   /\ seg.ceiling + seg.floor = F32Round(cand.ceiling + cand.floor)
              ELSE seg.ceiling = cand.ceiling /\ seg.floor = cand.floor

\* a generate_next has just recentred a candidate whose gap was too small
C1_Witness ==
    /\ op.name = "generate_next"
    /\ op.candidate.floor - op.candidate.ceiling < MIN_GAP * H
    /\ Len(cave.segments) > 1

\* C2: the retained segments are contiguous, each starting where the one before
\* it ends, and the cursor next_x is the end of the last one.
C2_Contiguous ==
    /\ \A i \in 2..Len(cave.segments) :
          cave.segments[i].x_start = x_end(cave.segments[i - 1])
    /\ cave.next_x = x_end(Last(cave.segments))

\* segments have been evicted and the rest is a full window
C2_Witness ==
    /\ Len(cave.segments) = MAX_SEGMENTS
    /\ cave.segments[1].x_start > 0
    /\ cave.next_x = cave.segments[1].x_start + MAX_SEGMENTS * SEGMENT_WIDTH

\* C3: the cave never holds fewer than one or more than MAX_SEGMENTS segments.
C3_Retention ==
    /\ Len(cave.segments) >= 1
    /\ Len(cave.segments) <= MAX_SEGMENTS

\* more than MAX_SEGMENTS segments were generated since the last reset
C3_Witness ==
    /\ Len(hist) > MAX_SEGMENTS
    /\ Len(cave.segments) = MAX_SEGMENTS

\* C4: the retained segments are the most recently generated ones since
\* construction or the last level change, at most MAX_SEGMENTS of them, in the
\* order of their generation.
C4_Fifo ==
    LET n == Len(hist)
        k == IF n > MAX_SEGMENTS THEN MAX_SEGMENTS ELSE n
    IN  cave.segments = SubSeq(hist, n - k + 1, n)

\* several segments have been evicted
C4_Witness ==
    /\ Len(hist) >= MAX_SEGMENTS + 3
    /\ cave.segments[1] = hist[Len(hist) - MAX_SEGMENTS + 1]

\* C5: segments_in_view(x_min, x_max, d) returns; it has generated segments
\* up to the first cursor with next_x >= x_max + SEGMENT_WIDTH (the sum as f32
\* computes it) and none when the cursor was there already; it returns, in
\* their order, the retained segments with x_start < x_max and x_end > x_min.
C5_SegmentsInView ==
    op.name = "segments_in_view" =>
        LET limit == F32Round(op.x_max + SEGMENT_WIDTH)
            Intersects(segment) ==
                segment.x_start < op.x_max /\ x_end(segment) > op.x_min
        IN  /\ op.done
            /\ cave.next_x >= limit
            /\ op.before_next_x >= limit => op.made = 0
            /\ \A i \in 1..op.made : hist[Len(hist) - op.made + i].x_start < limit
            /\ op.result = SelectSeq(cave.segments, Intersects)

C7_Reset ==
    op.name = "configure_for_level" =>
        /\ cave.segments = <<CaveSegment(cave.base_ceiling, cave.base_floor,
                                         0, SEGMENT_WIDTH)>>
        /\ cave.next_x = SEGMENT_WIDTH
        /\ cave.pickup_manager.pickups = << >>

\* the level change found a full window of segments and some pickups
C7_Witness ==
    /\ op.name = "configure_for_level"
    /\ op.before_segments = MAX_SEGMENTS
    /\ op.before_pickups > 1

\* a cave without the states of its two random streams
StreamFree(c) == [c EXCEPT !.rng = <<0, 0>>, !.pickup_manager.rng = <<0, 0>>]

C9_ActivationLock ==
    /\ op.name = "activate" =>
          IF op.before_beam.active
          THEN beam = op.before_beam
          ELSE beam = [active |-> TRUE, dir |-> op.dir, timer |-> MAX_DURATION]
    /\ beam.dir # op.before_beam.dir =>
          /\ op.name = "activate"
          /\ ~op.before_beam.active
          /\ beam.active

\* activate with the other direction on a beam that has run for a while
C9_Witness ==
    /\ op.name = "activate"
    /\ op.before_beam.active
    /\ op.dir # op.before_beam.dir
    /\ op.before_beam.timer < MAX_DURATION

\* C10: after any activate and tick(dt) with dt >= 0 the timer is within
\* 0..MAX_DURATION, it is 0 when the beam is inactive and above 0 when the beam
\* is active.
C10_BeamInvariant ==
    /\ 0 <= beam.timer
    /\ beam.timer <= MAX_DURATION
    /\ beam.active <=> beam.timer > 0

\* a tick longer than the remaining time has ended an activation
C10_Witness ==
    /\ op.name = "tick"
    /\ op.before_beam.active
    /\ op.dt > op.before_beam.timer
    /\ ~beam.active

\* C11: tick(dt) on an active beam with timer t leaves it active with the timer
\* at t - dt (the difference as f32 computes it, above 0) when t - dt > 0, and
\* makes it inactive with the timer at exactly 0 when t - dt <= 0, also for
\* dt = MAX_DURATION and dt > MAX_DURATION; the direction stays; tick on an
\* inactive beam changes nothing.
C11_Tick ==
    op.name = "tick" =>
        LET b == op.before_beam
        IN  IF ~b.active THEN beam = b
            ELSE IF b.timer - op.dt > 0
            THEN /\ beam = [b EXCEPT !.timer = F32Round(b.timer - op.dt)]
                 /\ beam.timer > 0
            ELSE beam = [b EXCEPT !.active = FALSE, !.timer = 0]

\* a tick of exactly the time left has ended an activation that had run for a
\* while
C11_Witness ==
    /\ op.name = "tick"
    /\ op.before_beam.active
    /\ op.before_beam.timer < MAX_DURATION
    /\ op.dt = op.before_beam.timer
    /\ ~beam.active
    /\ beam.timer = 0

\* C12: an activated beam expires within ceil(MAX_DURATION / delta) ticks of its
\* activation when every tick has dt >= delta > 0, whatever activate calls are
\* made meanwhile: a beam still active after n ticks, the least of them delta,
\* has n < ceil(MAX_DURATION / delta), that is n * delta < MAX_DURATION.
C12_Expiry ==
    (beam.active /\ life.ticks > 0 /\ life.least > 0) =>
        life.ticks * life.least < MAX_DURATION

\* the last call was an update_tractor_beam_attraction
Updated == op.name = "update_tractor_beam_attraction"

\* the pickups before and after the last call
Old(i) == op.before_manager.pickups[i]

New(i) == cave.pickup_manager.pickups[i]

\* The pickup p lies in the beam b of the player, at most half pixels aside
\* (boundary included) and at most MAX_RANGE away in the direction of the
\* beam.
Within(b, player_pos, p, half) ==
    LET dx == F32RoundS(PosX(p.position) - player_pos[1] * H)
        dy == F32RoundS(p.position[2] - player_pos[2] * H)
    IN  /\ b.active
        /\ (b.dir = "Up" => dy < 0)
        /\ (b.dir = "Down" => dy > 0)
        /\ -half * H <= dx /\ dx <= half * H
        /\ -MAX_RANGE * H <= dy /\ dy <= MAX_RANGE * H

\* C13: with the beam active, an update makes a non-collected pickup that was
\* not being attracted attracted only if it lies in the narrow beam (16 px
\* aside or less); a pickup that was being attracted stays attracted exactly if
\* it lies within the hold width (24 px aside or less), and otherwise is at its
\* original_position with being_attracted cleared.
C13_Hysteresis ==
    (Updated /\ op.before_beam.active) =>
        \A i \in 1..Len(op.before_manager.pickups) :
            ~Old(i).collected =>
                /\ (~Old(i).being_attracted /\ New(i).being_attracted) =>
                        Within(op.before_beam, op.player, Old(i), 16)
                /\ Old(i).being_attracted =>
                        /\ New(i).being_attracted <=>
                                Within(op.before_beam, op.player, Old(i), 24)
                        /\ ~Within(op.before_beam, op.player, Old(i), 24) =>
                                /\ New(i).position = Old(i).original_position
                                /\ New(i).original_position = Old(i).original_position

\* an attracted pickup between the two widths has stayed attracted
C13_Witness ==
    /\ Updated
    /\ op.before_beam.active
    /\ \E i \in 1..Len(op.before_manager.pickups) :
          /\ ~Old(i).collected
          /\ Old(i).being_attracted
          /\ ~Within(op.before_beam, op.player, Old(i), 16)
          /\ Within(op.before_beam, op.player, Old(i), 24)
          /\ New(i).being_attracted

\* C14: whenever attraction applies to a pickup in an update with dt > 0 (it
\* starts being attracted in the narrow beam, or it is being attracted and lies
\* within the hold width), the pickup is being attracted afterwards and its
\* position has advanced by the unit vector toward the player times
\* ATTRACTION_SPEED times dt, between the two widths too.
C14_Advance ==
    (Updated /\ op.before_beam.active /\ op.dt.m > 0) =>
        \A i \in 1..Len(op.before_manager.pickups) :
            LET d == Delta(op.player, Old(i).position)
            IN  (/\ ~Old(i).collected
                 /\ \/ ~Old(i).being_attracted
                        /\ Within(op.before_beam, op.player, Old(i), 16)
                    \/ Old(i).being_attracted
                        /\ Within(op.before_beam, op.player, Old(i), 24)) =>
                    /\ New(i).being_attracted
                    /\ New(i).position =
                           apply_attraction(Old(i), ForceOn(-d[1], -d[2]),
                                            ATTRACTION_SPEED, op.dt).position

\* C15: in updates made one after another with the beam active and the player
\* at one place, no pickup is being attracted after one update, not attracted
\* after the next and being attracted again after the one after that.
C15_NoOscillation ==
    \A k \in 1..Len(trail) - 2 :
        \A i \in DOMAIN trail[k].flags :
            ~(/\ trail[k].flags[i]
              /\ ~trail[k + 1].flags[i]
              /\ trail[k + 2].flags[i])

\* C16: an update with the beam inactive puts every non-collected pickup that
\* was being attracted at its original_position with being_attracted cleared
\* and leaves every other pickup as it was; get_attracted_pickups is empty
\* afterwards.
C16_Release ==
    (Updated /\ ~op.before_beam.active) =>
        /\ Len(cave.pickup_manager.pickups) = Len(op.before_manager.pickups)
        /\ \A i \in 1..Len(op.before_manager.pickups) :
              New(i) = IF ~Old(i).collected /\ Old(i).being_attracted
                       THEN [Old(i) EXCEPT !.position = Old(i).original_position,
                                           !.being_attracted = FALSE]
                       ELSE Old(i)
        /\ get_attracted_pickups(cave.pickup_manager) = << >>

\* an update after the beam ran out has put back a pickup that had moved from
\* its wall, next to a pickup that was never attracted
C16_Witness ==
    /\ Updated
    /\ ~op.before_beam.active
    /\ \E i, j \in 1..Len(op.before_manager.pickups) :
          /\ ~Old(i).collected
          /\ Old(i).being_attracted
          /\ Old(i).position # Old(i).original_position
          /\ New(i).position = Old(i).original_position
          /\ ~New(i).being_attracted
          /\ ~Old(j).being_attracted
          /\ New(j) = Old(j)

C19_ShouldSpawn ==
    op.name = "should_spawn_pickup" =>
        LET old == op.before_manager
            new == cave.pickup_manager
        IN  /\ op.result <=>
                  op.x * H >= F32RoundS(old.last_pickup_x * H + old.next_pickup_distance)
            /\ op.result =>
                  /\ new.last_pickup_x = op.x
                  /\ op.d % 10 = 0
                  /\ new.next_pickup_distance >= ((7 * op.d) \div 10) * H
                  /\ new.next_pickup_distance <= ((13 * op.d) \div 10) * H
                  /\ new.rng = RngStep(old.rng)
                  /\ new.pickups = old.pickups
            /\ ~op.result => new = old

\* a later spawn: the call found the cursor of an earlier spawn far enough
\* behind x, moved it to x and drew a new distance
C19_Witness ==
    /\ op.name = "should_spawn_pickup"
    /\ op.result
    /\ op.before_manager.last_pickup_x > 0
    /\ op.x > op.before_manager.last_pickup_x
    /\ cave.pickup_manager.next_pickup_distance # op.before_manager.next_pickup_distance

\* C20: on a fresh PickupManager, where no spawn has happened yet,
\* should_spawn_pickup(x, avg) returns false for every x < INITIAL_SPAWN_DELAY,
\* and generate_next on a fresh cave places no pickup before
\* x = INITIAL_SPAWN_DELAY.
C20_InitialDelay ==
    op.before_manager = twin.pickup_manager =>
        /\ (op.name = "should_spawn_pickup" /\ op.x < INITIAL_SPAWN_DELAY) => ~op.result
        /\ op.name = "generate_next" =>
              \A i \in 1..Len(cave.pickup_manager.pickups) :
                  cave.pickup_manager.pickups[i].position[1] >= INITIAL_SPAWN_DELAY


\* the spawn cursor as clear_all_pickups leaves it
Cleared(pm) ==
    /\ pm.pickups = << >>
    /\ pm.last_pickup_x = 0
    /\ pm.next_pickup_distance = INITIAL_SPAWN_DELAY * H

\* C21: after configure_for_level (which calls clear_all_pickups) there are no
\* pickups, last_pickup_x is 0 and next_pickup_distance is INITIAL_SPAWN_DELAY;
\* a should_spawn_pickup(x, avg) made in that state returns false for every
\* x < INITIAL_SPAWN_DELAY and true for every x >= INITIAL_SPAWN_DELAY.
C21_ClearedCursor ==
    /\ op.name = "configure_for_level" => Cleared(cave.pickup_manager)
    /\ (op.name = "should_spawn_pickup" /\ Cleared(op.before_manager)) =>
          (op.result <=> op.x >= INITIAL_SPAWN_DELAY)

\* a call at x = INITIAL_SPAWN_DELAY found the cursor of a level change and
\* returned true
C21_Witness ==
    /\ op.name = "should_spawn_pickup"
    /\ Cleared(op.before_manager)
    /\ op.x = INITIAL_SPAWN_DELAY
    /\ op.result

\* C22: collect_pickup(i) returns Some(kind) and sets collected, changing
\* nothing else, exactly when i is the index of a pickup not yet collected; for
\* a collected pickup and for an index out of range it returns None and changes
\* nothing; and no call (activate, tick, update, collect, cleanup, collision
\* check) leaves a pickup uncollected that was collected before it.
C22_CollectOnce ==
    LET old == op.before_manager.pickups
        new == cave.pickup_manager.pickups
    IN  /\ op.name = "collect_pickup" =>
              IF op.x <= Len(old) /\ ~old[op.x].collected
              THEN /\ op.result = <<old[op.x].pickup_type>>
                   /\ new = [old EXCEPT ![op.x].collected = TRUE]
              ELSE /\ op.result = << >>
                   /\ new = old
        /\ \A i \in 1..Len(old), j \in 1..Len(new) :
              (old[i].collected /\ new[j].original_position = old[i].original_position)
                  => new[j].collected

\* a second collect_pickup of the same pickup returned None
C22_Witness ==
    /\ op.name = "collect_pickup"
    /\ op.x <= Len(op.before_manager.pickups)
    /\ op.before_manager.pickups[op.x].collected
    /\ op.result = << >>
    /\ cave.pickup_manager = op.before_manager

\* C23: cleanup_old_pickups(camera_x) keeps, in their order, every pickup that
\* is not collected and every collected pickup with x > camera_x - 1000; it
\* removes exactly the collected pickups with x <= camera_x - 1000.
C23_Cleanup ==
    op.name = "cleanup_old_pickups" =>
        /\ cave.pickup_manager.pickups =
              SelectSeq(op.before_manager.pickups,
                        LAMBDA p : ~(p.collected /\ PosX(p.position) <= (op.x - 1000) * H))
        /\ cave.pickup_manager =
              [op.before_manager EXCEPT !.pickups = cave.pickup_manager.pickups]

\* a cleanup removed a collected pickup at exactly camera_x - 1000 and kept an
\* uncollected pickup
C23_Witness ==
    /\ op.name = "cleanup_old_pickups"
    /\ \E i \in 1..Len(op.before_manager.pickups) :
          /\ op.before_manager.pickups[i].collected
          /\ PosX(op.before_manager.pickups[i].position) = (op.x - 1000) * H
    /\ Len(cave.pickup_manager.pickups) = 1
    /\ ~cave.pickup_manager.pickups[1].collected

\* the pickups that are not collected and whose box of SIZE x SIZE overlaps the
\* player box of the last call, by aabb_overlap
Overlapping ==
    {i \in 1..Len(cave.pickup_manager.pickups) :
        /\ ~cave.pickup_manager.pickups[i].collected
        /\ aabb_overlap(<<PosX(cave.pickup_manager.pickups[i].position),
                          cave.pickup_manager.pickups[i].position[2]>>,
                        <<SIZE * H, SIZE * H>>,
                        <<op.player[1] * H, op.player[2] * H>>,
                        <<op.d[1] * H, op.d[2] * H>>)}

\* C24: check_collision returns the least index of a pickup that is not
\* collected and whose box overlaps the player box as aabb_overlap decides it,
\* None when there is none; a pickup whose left edge is the right edge of the
\* player box, or whose right edge is its left edge, is not returned.
C24_CheckCollision ==
    op.name = "check_collision" =>
        /\ op.result = IF Overlapping = {} THEN << >>
                       ELSE <<CHOOSE i \in Overlapping : \A j \in Overlapping : i <= j>>
        /\ \A i \in 1..Len(cave.pickup_manager.pickups) :
              (\/ PosX(cave.pickup_manager.pickups[i].position)
                     = (op.player[1] + op.d[1]) * H
               \/ PosX(cave.pickup_manager.pickups[i].position) + SIZE * H
                     = op.player[1] * H)
                  => op.result # <<i>>

\* the player box touched an uncollected pickup from the left, at a height
\* where the two overlap, and check_collision returned None
C24_Witness ==
    /\ op.name = "check_collision"
    /\ op.result = << >>
    /\ \E i \in 1..Len(cave.pickup_manager.pickups) :
          /\ ~cave.pickup_manager.pickups[i].collected
          /\ PosX(cave.pickup_manager.pickups[i].position)
                = (op.player[1] + op.d[1]) * H
          /\ cave.pickup_manager.pickups[i].position[2] < (op.player[2] + op.d[2]) * H
          /\ cave.pickup_manager.pickups[i].position[2] + SIZE * H > op.player[2] * H

\* C25: the state machine starts in Menu, and every handled event moves it
\* by the table: Menu+Start -> Playing, Playing+PauseToggle -> Paused,
\* Playing+Dead -> GameOver, Paused+PauseToggle -> Playing, Paused+Reset ->
\* Menu, GameOver+Start -> Playing, GameOver+Reset -> Menu; every other pair
\* of a state and an event leaves the state as it was.
Transitions ==
    {<<"Menu", "Start", "Playing">>, <<"Playing", "PauseToggle", "Paused">>,
     <<"Playing", "Dead", "GameOver">>, <<"Paused", "PauseToggle", "Playing">>,
     <<"Paused", "Reset", "Menu">>, <<"GameOver", "Start", "Playing">>,
     <<"GameOver", "Reset", "Menu">>}

C25_Transitions ==
    /\ steps = 0 => current(state_machine) = "Menu"
    /\ op.name = "handle_event" =>
          LET from == current(op.before_state)
              to == current(state_machine)
          IN  /\ <<from, op.event, to>> \in Transitions
                 \/ /\ to = from
                    /\ \A tr \in Transitions : <<tr[1], tr[2]>> # <<from, op.event>>
              /\ to \in GameState

\* a Reset arrived while Playing and left the game Playing
C25_Witness ==
    /\ op.name = "handle_event"
    /\ op.event = "Reset"
    /\ current(op.before_state) = "Playing"
    /\ current(state_machine) = "Playing"

\* C26: BackToMenu is an event of the state machine; it takes Paused and
\* GameOver to Menu and leaves Menu and Playing as they are.
C26_BackToMenu ==
    /\ current(state_machine) \in {"Paused", "GameOver"} =>
          /\ "BackToMenu" \in GameEvent
          /\ next(current(state_machine), "BackToMenu") = "Menu"
    /\ current(state_machine) \in {"Menu", "Playing"} =>
          next(current(state_machine), "BackToMenu") = current(state_machine)

\* the manager after an update that advanced from the manager before at t
Advanced(before, t) ==
    /\ level_manager.current_level_index =
          IF before.current_level_index + 1 < Len(before.levels)
          THEN before.current_level_index + 1
          ELSE Len(before.levels) - 1
    /\ level_manager.level_start_time = t
    /\ level_manager.levels = before.levels
    /\ op.result = <<TRUE>>

Stayed(before) == level_manager = before /\ op.result = <<FALSE>>

DurationBefore ==
    op.before_level.levels[op.before_level.current_level_index + 1]
        .duration_seconds

\* C27 as stated: update(t) advances (index + 1 capped at the last level,
\* level_start_time := t, result true) only when t - level_start_time
\* exceeds the duration of the current level; while it does not exceed the
\* duration, update returns Ok(false) and leaves index and start time alone.
C27_AdvanceWhenExceeded ==
    op.name = "update" =>
        IF op.t - op.before_level.level_start_time > DurationBefore
        THEN Advanced(op.before_level, op.t)
        ELSE Stayed(op.before_level)

\* C27, amended: update(t) advances (index + 1 capped at the last level,
\* level_start_time := t, result true) exactly when t - level_start_time is
\* at least the duration of the current level; while it is below the
\* duration, update returns Ok(false) and leaves index and start time alone.
C27_AdvanceWhenReached ==
    op.name = "update" =>
        IF op.t - op.before_level.level_start_time >= DurationBefore
        THEN Advanced(op.before_level, op.t)
        ELSE Stayed(op.before_level)

\* an update at exactly the duration of the level advanced
C27_Witness ==
    /\ op.name = "update"
    /\ op.t - op.before_level.level_start_time = DurationBefore
    /\ level_manager.current_level_index
          = op.before_level.current_level_index + 1
    /\ op.result = <<TRUE>>

\* C28: with_levels rejects the empty list with EmptyLevelList and builds a
\* manager from any other; the index of a built manager stays below the
\* number of its levels after any updates and resets, so that current_level,
\* update and level_progress never return InvalidLevelIndex; at the last
\* level update still returns true and restarts the timer, the index staying.
C28_ValidIndex ==
    /\ level_manager.current_level_index < Len(level_manager.levels)
    /\ level_manager.current_level_index >= 0
    /\ current_level(level_manager) # "InvalidLevelIndex"
    /\ op.name \in {"update", "level_progress"} =>
          op.result # "InvalidLevelIndex"
    /\ op.name = "with_levels" =>
          IF Len(op.levels) = 0
          THEN op.result = "EmptyLevelList" /\ level_manager = op.before_level
          ELSE /\ op.result = <<level_manager>>
               /\ level_manager.levels = op.levels
               /\ level_manager.current_level_index = 0
               /\ level_manager.level_start_time = 0
    /\ (/\ op.name = "update"
        /\ op.before_level.current_level_index
              = Len(op.before_level.levels) - 1
        /\ op.t - op.before_level.level_start_time >= DurationBefore) =>
          /\ op.result = <<TRUE>>
          /\ level_manager.level_start_time = op.t
          /\ level_manager.current_level_index
                = op.before_level.current_level_index

\* a manager built by with_levels was updated past the end of its last level
C28_Witness ==
    /\ op.name = "update"
    /\ op.before_level.levels = TestLevels
    /\ op.before_level.current_level_index = 1
    /\ op.result = <<TRUE>>
    /\ level_manager.current_level_index = 1
    /\ level_manager.level_start_time = op.t
    /\ op.t > op.before_level.level_start_time

\* C29: level_progress(t) is elapsed / duration clamped to [0, 1]: never
\* below 0 and never above 1, also for a t before level_start_time.
C29_ProgressClamped ==
    op.name = "level_progress" =>
        /\ op.result # "InvalidLevelIndex"
        /\ op.result[1].s >= 0
        /\ ~AboveOne(op.result[1])

\* C31: every value of range(lo, hi), lo < hi, is at least lo and below hi,
\* and every value of next_f32 is at least 0 and below 1.0, whatever state
\* the generator is in.
C31_RangeBound ==
    /\ op.name = "next_f32" =>
          /\ op.result.m >= 0
          /\ op.result.e <= 30 => op.result.m < Pow2(op.result.e)
    /\ op.name = "range" =>
          /\ op.min * Pow2(op.unit) <= op.result
          /\ op.result < op.max * Pow2(op.unit)

\* the screen x at which the tick made its boundary check
CheckedAt ==
    screen_x(Scrolled(op.before_player, op.dt, op.scroll_speed),
             op.camera_offset_x)

InBand(sx) == MIN_SCREEN_X * PX <= sx /\ sx <= MAX_SCREEN_X * PX

\* C32: a tick whose boundary check finds the player's screen x within
\* [15, 785] leaves it within [15, 785], for every input and velocity; at a
\* boundary an outward velocity is zeroed and the position pinned to the
\* boundary, and input away from the boundary still accelerates the player.
C32_StaysInBand ==
    op.name = "tick" =>
        /\ InBand(CheckedAt) => InBand(screen_x(player, op.camera_offset_x))
        /\ (/\ CheckedAt = MIN_SCREEN_X * PX
            /\ op.before_player.vel.x < 0
            /\ "right" \notin op.input) =>
              /\ player.vel.x = 0
              /\ screen_x(player, op.camera_offset_x) = MIN_SCREEN_X * PX
        /\ (/\ CheckedAt = MIN_SCREEN_X * PX
            /\ op.before_player.vel.x = 0
            /\ "right" \in op.input) =>
              player.vel.x > 0

\* the pickup p as spawn_fuel_pickup places it in the segment s
PlacedIn(p, s) ==
    /\ p.position[1] = s.x_start + s.width \div 2
    /\ p.position[3] = 0
    /\ p.position[2] =
          IF p.is_on_ceiling
          THEN F32Round(s.ceiling + WALL_OFFSET * H)
          ELSE F32Round(F32Round(s.floor - SIZE * H) - WALL_OFFSET * H)
    /\ s.ceiling <= p.position[2]
    /\ p.position[2] + SIZE * H <= s.floor

\* C33: every pickup spawned by generate_next is at the horizontal centre of
\* its segment, at ceiling + WALL_OFFSET or at floor - SIZE - WALL_OFFSET, so
\* that ceiling <= y and y + SIZE <= floor, and it is created not collected,
\* not attracted and with original_position = position.
C33_InsideTunnel ==
    \A i \in 1..Len(cave.pickup_manager.pickups) :
        LET p == cave.pickup_manager.pickups[i]
        IN  /\ \E k \in 1..Len(hist) : PlacedIn(p, hist[k])
            /\ ~p.collected
            /\ ~p.being_attracted
            /\ p.original_position = p.position

\* a call spawned pickups on the ceiling and on the floor
C33_Witness ==
    /\ op.name \in {"generate_next", "segments_in_view"}
    /\ Len(cave.pickup_manager.pickups) > op.before_pickups
    /\ \E i, j \in 1..Len(cave.pickup_manager.pickups) :
          /\ cave.pickup_manager.pickups[i].is_on_ceiling
          /\ ~cave.pickup_manager.pickups[j].is_on_ceiling

\* the candidates x = 0, 50, .., 1950 of the test have all been asked
ScanDone == scan.x = 2000

Smaller ==
    scan.level1.fuel_spawn_distance < scan.level2.fuel_spawn_distance

Apart ==
    13 * scan.level1.fuel_spawn_distance < 7 * scan.level2.fuel_spawn_distance

C35_HeightsNearBase ==
    \A k \in 1..Len(hist) :
        /\ Abs(hist[k].ceiling - cave.base_ceiling) <= MAX_HEIGHT_CHANGE * H
        /\ Abs(hist[k].floor - cave.base_floor) <= MAX_HEIGHT_CHANGE * H

\* at a level whose base gap is MIN_GAP a generate_next has just recentred
\* its candidate, away from the base heights
C35_Witness ==
    /\ op.name = "generate_next"
    /\ cave.base_floor - cave.base_ceiling = MIN_GAP * H
    /\ op.candidate.floor - op.candidate.ceiling < MIN_GAP * H
    /\ Last(hist) = Last(cave.segments)
    /\ Last(hist).ceiling # op.candidate.ceiling
    /\ Last(hist).ceiling # cave.base_ceiling

\* player positions of the updates, and targets around the player (75, 240):
\* level with it, in the beam below and above it, in the hold band only,
\* beside both and out of range; with them the pickups of the cave
BeamPlayers == {inp[1] : inp \in AttractInputs}

BeamTargets ==
    {<<75, 240 * H, 0>>, <<80, 300 * H, 0>>, <<80, 100 * H, 0>>,
     <<95, 300 * H, 0>>, <<95, 100 * H, 0>>, <<110, 300 * H, 0>>,
     <<75, 600 * H, 0>>, <<91, 240 * H + 4, 0>>}
    \cup {cave.pickup_manager.pickups[i].position :
            i \in 1..Len(cave.pickup_manager.pickups)}

\* the target is strictly on the beam's side of the player
OnSide(b, player_pos, target_pos) ==
    IF b.dir = "Up" THEN target_pos[2] < player_pos[2] * H
    ELSE target_pos[2] > player_pos[2] * H

\* C36: for every beam, player and target, is_point_in_beam implies
\* should_maintain_attraction; when the beam is inactive or the target is not
\* strictly on the beam's side of the player (dy = 0 is outside) both are
\* false and get_attraction_force is the zero vector.
C36_BeamInsideHold ==
    \A player_pos \in BeamPlayers, target_pos \in BeamTargets :
        /\ is_point_in_beam(beam, player_pos, target_pos)
              => should_maintain_attraction(beam, player_pos, target_pos)
        /\ (~beam.active \/ ~OnSide(beam, player_pos, target_pos)) =>
              /\ ~is_point_in_beam(beam, player_pos, target_pos)
              /\ ~should_maintain_attraction(beam, player_pos, target_pos)
              /\ get_attraction_force(beam, player_pos, target_pos) = ZeroForce

\* the beam is active downwards and an update found a pickup in the beam,
\* while another player position has the same pickup in the hold band only
C36_Witness ==
    /\ beam.active
    /\ beam.dir = "Down"
    /\ Updated
    /\ \E i \in 1..Len(cave.pickup_manager.pickups) :
          /\ is_point_in_beam(beam, op.player,
                              cave.pickup_manager.pickups[i].position)
          /\ \E player_pos \in BeamPlayers :
                /\ ~is_point_in_beam(beam, player_pos,
                                     cave.pickup_manager.pickups[i].position)
                /\ should_maintain_attraction(
                       beam, player_pos,
                       cave.pickup_manager.pickups[i].position)

\* the pickups of the manager before the operation and after it
PickupsBefore == op.before_manager.pickups
PickupsAfter == cave.pickup_manager.pickups

\* the operation kept every pickup in its place in the list
SamePlaces ==
    /\ Len(PickupsAfter) = Len(PickupsBefore)
    /\ \A i \in 1..Len(PickupsAfter) :
          PickupsAfter[i].original_position = PickupsBefore[i].original_position

\* C37: original_position never changes after the spawn (an update and a
\* collection keep it pickup by pickup, a cleanup only keeps pickups it found),
\* a pickup whose being_attracted is false is exactly at original_position,
\* and update_tractor_beam_attraction leaves a collected pickup as it was
C37_Anchored ==
    /\ \A i \in 1..Len(PickupsAfter) :
          ~PickupsAfter[i].being_attracted
              => PickupsAfter[i].position = PickupsAfter[i].original_position
    /\ op.name \in {"update_tractor_beam_attraction", "collect_pickup"} => SamePlaces
    /\ op.name = "cleanup_old_pickups"
          => \A i \in 1..Len(PickupsAfter) :
                 \E j \in 1..Len(PickupsBefore) : PickupsAfter[i] = PickupsBefore[j]
    /\ op.name = "update_tractor_beam_attraction"
          => \A i \in 1..Len(PickupsBefore) :
                 PickupsBefore[i].collected => PickupsAfter[i] = PickupsBefore[i]

\* an update under the active beam finds a pickup that was collected on its
\* way to the player, away from its wall, and leaves it there
C37_Witness ==
    /\ op.name = "update_tractor_beam_attraction"
    /\ op.before_beam.active
    /\ \E i \in 1..Len(PickupsBefore) :
          /\ PickupsBefore[i].collected
          /\ PickupsBefore[i].position # PickupsBefore[i].original_position
          /\ PickupsAfter[i].position = PickupsBefore[i].position

\* the duration of the level that follows the one the update found
DurationNext ==
    op.before_level.levels[op.before_level.current_level_index + 2]
        .duration_seconds

\* C38: one update advances by at most one level however large the elapsed
\* time is; an update that advanced left level_start_time = t, so that no
\* time beyond the duration of the finished level counts in the next one.
C38_OneLevelPerUpdate ==
    op.name = "update" =>
        /\ level_manager.current_level_index
              \in {op.before_level.current_level_index,
                   op.before_level.current_level_index + 1}
        /\ op.result = <<TRUE>> =>
              /\ level_manager.level_start_time = op.t
              /\ Elapsed(level_manager, op.t) = 0
        /\ op.result = <<FALSE>> =>
              level_manager.level_start_time = op.before_level.level_start_time

\* an update found the time of two whole levels elapsed and advanced by one
C38_Witness ==
    /\ op.name = "update"
    /\ op.before_level.current_level_index + 2 < Len(op.before_level.levels)
    /\ op.t - op.before_level.level_start_time >= DurationBefore + DurationNext
    /\ level_manager.current_level_index
          = op.before_level.current_level_index + 1
    /\ level_manager.level_start_time = op.t
    /\ op.result = <<TRUE>>

\* the segments follow one another without a hole and hold [x_min, x_max)
Covers(segments, x_min, x_max) ==
    /\ Len(segments) > 0
    /\ segments[1].x_start <= x_min
    /\ x_end(segments[Len(segments)]) >= x_max
    /\ \A k \in 1..Len(segments) - 1 : x_end(segments[k]) = segments[k + 1].x_start

\* C39: while the camera only moves forward (the views of SpecDeep do) and
\* the view is at most (MAX_SEGMENTS - 2) * SEGMENT_WIDTH wide, the segments
\* segments_in_view returns are contiguous and cover [x_min, x_max).
C39_ViewCovered ==
    (/\ op.name = "segments_in_view"
     /\ op.done
     /\ op.x_min >= 0
     /\ op.x_max - op.x_min <= WIDEST_VIEW)
        => Covers(op.result, op.x_min, op.x_max)

\* C40: configure_for_level(0) completes, without an underflow in
\* level_number - 1, and leaves a cave with one segment whose gap lies in
\* [MIN_GAP, 400].
C40_TotalAtZero ==
    (op.name = "configure_for_level" /\ op.level = 0) =>
        /\ op.done
        /\ Len(cave.segments) = 1
        /\ cave.segments[1].floor - cave.segments[1].ceiling >= MIN_GAP * H
        /\ cave.segments[1].floor - cave.segments[1].ceiling <= INITIAL_GAP * H

=============================================================================
